---- MODULE Spec2Model ----
(***************************************************************************)
(* AcceptEVM: the invoice reconciliation engine.                           *)
(*                                                                         *)
(* The gateway of src/gateway/mod.rs keeps its invoices in a SkipMap; the  *)
(* poller of src/web3/poller/mod.rs walks them, expires stale ones, checks *)
(* the ledger balance of the others and sweeps paid ones to the treasury   *)
(* with the transfer engine of src/web3/transfers/gas_transfers/mod.rs and *)
(* src/web3/mod.rs.  Every await of the poller is one action; the ledger,  *)
(* the clock, the payers, the callers of new_invoice and the consumer of   *)
(* the channel are the environment.                                        *)
(*                                                                         *)
(* The repository also holds an earlier poller (src/poller/mod.rs) over a  *)
(* sled tree (src/db/mod.rs); it is modelled by the sled_ actions and the  *)
(* specification SpecSled.                                                 *)
(*                                                                         *)
(* Four smaller specifications drive single functions with every input:    *)
(* SpecValue the sweep value arithmetic, SpecGateway the calls of          *)
(* PaymentGateway, SpecDb the functions of src/db/mod.rs, SpecPaid the     *)
(* payment check of check_and_process.                                     *)
(*                                                                         *)
(* SpecTasks runs several poll_payments tasks over one gateway, as every   *)
(* call of PaymentGateway::poll_payments spawns one; SpecMemory follows    *)
(* the buffers that hold the key bytes of an invoice.                      *)
(***************************************************************************)
EXTENDS Integers, Sequences, FiniteSets, TLC

\* ------------------------------------------------------------------ bounds

\* Number of invoices ever created (keys and addresses are 1..MaxInvoices).
MaxInvoices == 2
\* The clock runs from 1 to MaxTime seconds.
MaxTime == 3
\* Largest native balance an invoice address ever holds.
MaxBalance == 2
\* Largest configured eip1559_estimation_retry_max.
MaxRetryMax == 1
\* Number of invoices created under a fee-market configuration.
MaxEip1559Invoices == 1
\* Width of the clock and of expires_in_seconds, u64 in the program.
U64Bits == 3
U64Max == 2 ^ U64Bits - 1

Keys == 1..MaxInvoices
Addrs == 1..MaxInvoices
Amounts == {1}
GasPrices == {1}
GasEstimates == {1}

\* ------------------------------------------------------------------ Option

None == {}
Some(x) == {x}
Unwrap(o) == CHOOSE x \in o : TRUE

\* u64 addition as a build without overflow checks computes it; a build
\* with them panics where this wraps.
u64_add(a, b) == (a + b) % (U64Max + 1)
\* U256::saturating_sub
saturating_sub(a, b) == IF a >= b THEN a - b ELSE 0

\* ------------------------------------------------------------------ state

VARIABLES
    now,          \* the system clock in seconds (get_unix_time_seconds)
    config,       \* PaymentGatewayConfiguration
    invoices,     \* PaymentGateway.invoices: key -> Invoice
    minted,       \* the invoice ids hash_now has produced so far
    next_addr,    \* the next fresh address of LocalWallet::new
    channel,      \* the (key, invoice) pairs delivered to the receiver
    receiver_open,\* the consumer still holds a receiver of the channel
    balance,      \* ledger: native balance of every address
    treasury,     \* ledger: native balance of the treasury address
    pending,      \* ledger: submitted transactions that are not mined
    mined,        \* ledger: the senders whose transaction of nonce 0 is mined
    pc,           \* the poller task's position
    all,          \* poller: what the for loop has left of get_all_invoices' vector
    xfer,         \* poller: the locals of the running transfer
    wake,         \* poller: the clock value its current sleep ends at
    checked,      \* poller: the reply check_and_process got for the invoice
    created,      \* history: key -> arguments and time of its new_invoice
    funded,       \* history: keys whose balance reached the amount before expires
    query_at,     \* history: key -> clock of its latest balance query (0: none)
    sweeps,       \* history: key -> number of transfer_to_treasury calls
    expired,      \* history: keys removed by the expiry branch
    sends,        \* history: every sender.send / callback call, in order
    fee,          \* history: the latest estimate_eip1559_fees_with_retry call
    call,         \* history: the application's latest call and what it returned
    heap          \* the buffers that hold key bytes (followed in SpecMemory)

gatewayVars == <<config, invoices, minted, next_addr, channel, receiver_open>>
ledgerVars == <<balance, treasury, pending, mined>>
pollerVars == <<pc, all, xfer, wake, checked>>
historyVars == <<created, funded, query_at, sweeps, expired, sends, fee, call,
                 heap>>
vars == <<now, gatewayVars, ledgerVars, pollerVars, historyVars>>

\* ------------------------------------------------------------------ store

\* A remove that leaves the entry in the map.
Remove_Kept(map, key) == map

\* A remove that writes the entry back as paid instead of removing it.
Remove_Stamped(map, key) ==
    [k \in DOMAIN map |->
        IF k = key THEN [map[k] EXCEPT !.paid_at_timestamp = 1] ELSE map[k]]

\* SkipMap::remove / Tree::remove
Remove(map, key) == [k \in DOMAIN map \ {key} |-> map[k]]
\* An insert that drops every other entry.
Insert_Alone(map, key, value) == [k \in {key} |-> value]

\* SkipMap::insert / Tree::insert: an existing entry of the key is replaced
Insert(map, key, value) ==
    [k \in DOMAIN map \cup {key} |-> IF k = key THEN value ELSE map[k]]

RECURSIVE Ascending(_)
Ascending(S) ==
    IF S = {} THEN <<>>
    ELSE LET m == CHOOSE x \in S : \A y \in S : x <= y
         IN <<m>> \o Ascending(S \ {m})

\* A get_all that returns the first entry only.
get_all_invoices_First(map) ==
    LET ks == Ascending(DOMAIN map)
    IN [i \in 1..(IF ks = <<>> THEN 0 ELSE 1) |-> <<ks[i], map[ks[i]]>>]

\* The entries in the descending order of the keys.
get_all_invoices_Reversed(map) ==
    LET ks == Ascending(DOMAIN map)
    IN [i \in 1..Len(ks) |-> <<ks[Len(ks) + 1 - i], map[ks[Len(ks) + 1 - i]]>>]

\* PaymentGateway::get_all_invoices: the map's entries in the order of its
\* iterator, which is the order of the keys.
get_all_invoices(map) ==
    LET ks == Ascending(DOMAIN map)
    IN [i \in 1..Len(ks) |-> <<ks[i], map[ks[i]]>>]

\* PaymentGateway::get_invoice
get_invoice(map, key) ==
    IF key \in DOMAIN map
    THEN [ok |-> TRUE, value |-> Some(map[key]), err |-> "None"]
    ELSE [ok |-> FALSE, value |-> None, err |-> "NotFound"]

\* The private key LocalWallet::new draws for an address.
signer_bytes(addr) == <<addr, addr + MaxInvoices>>
\* LocalWallet::from_bytes: the signer of well-formed key bytes, or an error.
from_bytes(bytes) ==
    IF \E addr \in Addrs : bytes = signer_bytes(addr)
    THEN [ok |-> TRUE, value |-> Some(bytes[1])]
    ELSE [ok |-> FALSE, value |-> None]

NoXfer ==
    [key |-> 0, detected_at |-> 0, gas_price |-> 0, balance |-> 0,
     base_fee |-> 0, retries |-> 0, max_fee_per_gas |-> 0, priority_fee |-> 0,
     tx |-> None]

\* No balance reply yet.
NoReply == [ok |-> FALSE, value |-> {"none"}]

\* No key was generated yet: no buffer holds key bytes.
NoHeap == [a \in {} |-> 0]

\* The application has called nothing yet.
NoCall ==
    [op |-> "none", key |-> 0, panicked |-> FALSE,
     result |-> [ok |-> FALSE, value |-> None, err |-> "None"]]

NoFee == [result |-> "none", attempts |-> 0, max_retries |-> 0, sleeps |-> <<>>,
          fees |-> <<0, 0>>, block |-> None, err |-> "None"]

Configs ==
    [poller_delay_seconds : {1},
     transaction_type : {"Legacy", "Eip1559"},
     eip1559_estimation_retry_max : 0..MaxRetryMax,
     eip1559_estimation_retry_delay_seconds : {2}]
\* The legacy transfer reads none of the retry fields: one value of them.
LegacyConfigs ==
    {c \in Configs : /\ c.transaction_type = "Legacy"
                     /\ c.eip1559_estimation_retry_max = 0}
Eip1559Configs == {c \in Configs : c.transaction_type = "Eip1559"}

\* PaymentGateway::new: an empty map; the poller task is not spawned yet.
Construct(configurations) ==
    /\ now = 1
    /\ config \in configurations
    /\ invoices = [k \in {} |-> 0]
    /\ minted = {}
    /\ next_addr = 1
    /\ channel = <<>>
    /\ receiver_open = TRUE
    /\ balance = [a \in Addrs |-> 0]
    /\ treasury = 0
    /\ pending = {}
    /\ mined = {}
    /\ pc = "unspawned"
    /\ all = <<>>
    /\ xfer = NoXfer
    /\ wake = 0
    /\ checked = NoReply
    /\ created = [k \in {} |-> 0]
    /\ funded = {}
    /\ query_at = [k \in Keys |-> 0]
    /\ sweeps = [k \in Keys |-> 0]
    /\ expired = {}
    /\ sends = <<>>
    /\ fee = NoFee
    /\ call = NoCall
    /\ heap = NoHeap

Init == Construct(LegacyConfigs)

\* ------------------------------------------------------------ environment

\* The clock advances by one second.
Tick ==
    /\ now < MaxTime
    /\ now' = now + 1
    /\ UNCHANGED <<gatewayVars, ledgerVars, pollerVars, historyVars>>

\* A payer deposits value at an issued invoice address.
Pay ==
    \E a \in 1..(next_addr - 1), v \in 1..MaxBalance :
        /\ balance[a] + v <= MaxBalance
        /\ balance' = [balance EXCEPT ![a] = @ + v]
        /\ funded' = funded \cup
               {k \in DOMAIN invoices : /\ invoices[k].to = a
                                        /\ balance'[a] >= invoices[k].amount
                                        /\ now < invoices[k].expires}
        /\ UNCHANGED <<now, gatewayVars, treasury, pending, mined, pollerVars,
                       created, query_at, sweeps, expired, sends, fee, call,
                       heap>>

\* The nonce the ledger accepts from an address: the number of its mined
\* transactions.  The transfers mine at most one transaction of an address.
account_nonce(a) == IF a \in mined THEN 1 ELSE 0

\* The ledger mines a submitted transaction: the sender pays the value and
\* the fee, the treasury receives the value.  A transaction of nonce 0 is
\* valid only as the first transaction of its sender.
MineTx ==
    \E tx \in pending :
        /\ tx.nonce = account_nonce(tx.from)
        /\ balance[tx.from] >= tx.value + tx.gas * tx.price
        /\ balance' = [balance EXCEPT ![tx.from] = @ - tx.value - tx.gas * tx.price]
        /\ treasury' = treasury + tx.value
        /\ pending' = pending \ {tx}
        /\ mined' = mined \cup {tx.from}
        /\ UNCHANGED <<now, gatewayVars, pollerVars, historyVars>>

\* The consumer drops its receiver: the channel is closed.
DropReceiver ==
    /\ receiver_open
    /\ receiver_open' = FALSE
    /\ UNCHANGED <<now, config, invoices, minted, next_addr, channel,
                   ledgerVars, pollerVars, historyVars>>

\* ------------------------------------------------------------------ gateway

\* An invoice that is born paid.
NewInvoiceRecord_Paid(to, amount, message, expires_in_seconds, time) ==
    [to |-> to,
     wallet |-> [inner |-> signer_bytes(to)],
     amount |-> amount,
     token_address |-> None,
     message |-> message,
     paid_at_timestamp |-> time,
     expires |-> u64_add(time, expires_in_seconds),
     hash |-> None]

\* An invoice that lives one second longer than asked.
NewInvoiceRecord_Late(to, amount, message, expires_in_seconds, time) ==
    [to |-> to,
     wallet |-> [inner |-> signer_bytes(to)],
     amount |-> amount,
     token_address |-> None,
     message |-> message,
     paid_at_timestamp |-> 0,
     expires |-> u64_add(time, expires_in_seconds) + 1,
     hash |-> None]

\* The Invoice new_invoice builds.
NewInvoiceRecord(to, amount, message, expires_in_seconds, time) ==
    [to |-> to,
     wallet |-> [inner |-> signer_bytes(to)],
     amount |-> amount,
     token_address |-> None,
     message |-> message,
     paid_at_timestamp |-> 0,
     expires |-> u64_add(time, expires_in_seconds),
     hash |-> None]

\* PaymentGateway::new_invoice: a token address aborts the caller with a
\* panic; without one the invoice of a fresh signer is inserted under the
\* id and both are returned.
new_invoice_call(limit, token_address, invoice_id) ==
    /\ next_addr <= limit
    /\ IF token_address # None
       THEN /\ call' = [NoCall EXCEPT !.op = "new_invoice", !.panicked = TRUE]
            /\ UNCHANGED <<invoices, created, minted, next_addr>>
       ELSE \E amount \in Amounts, message \in {<<116>>},
               expires_in_seconds \in {0, 1, U64Max} :
            LET invoice == NewInvoiceRecord(next_addr, amount, message,
                                            expires_in_seconds, now)
            IN /\ invoices' = Insert(invoices, invoice_id, invoice)
               /\ created' = Insert(created, invoice_id,
                                    [amount |-> amount, message |-> message,
                                     expires_in_seconds |-> expires_in_seconds,
                                     at |-> now, returned |-> invoice,
                                     fetched |-> get_invoice(invoices', invoice_id),
                                     len_before |-> Cardinality(DOMAIN invoices),
                                     len_after |-> Cardinality(DOMAIN invoices'),
                                     issued_before |-> {invoices[k].to : k \in DOMAIN invoices}
                                         \cup {created[k].returned.to : k \in DOMAIN created}])
               /\ call' = [op |-> "new_invoice", key |-> invoice_id,
                           panicked |-> FALSE,
                           result |-> [ok |-> TRUE,
                                       value |-> Some(<<invoice_id, invoice>>),
                                       err |-> "None"]]
               /\ minted' = minted \cup {invoice_id}
               /\ next_addr' = next_addr + 1
    /\ UNCHANGED <<now, config, channel, receiver_open, ledgerVars, pollerVars,
                   funded, query_at, sweeps, expired, sends, fee, heap>>

\* new_invoice for the native asset.  The id is the SHA-256 of the fresh
\* address and the time: some id not minted before.
new_invoice(limit) ==
    \E invoice_id \in Keys \ minted : new_invoice_call(limit, None, invoice_id)

\* PaymentGateway::poll_payments: spawns the poller task.
spawn_poll_payments ==
    /\ pc = "unspawned"
    /\ pc' = "loop"
    /\ UNCHANGED <<now, gatewayVars, ledgerVars, all, xfer, wake, checked, historyVars>>

\* ------------------------------------------------------------------ ledger replies

Ok(v) == [ok |-> TRUE, value |-> Some(v)]
\* A transport / provider error of the ledger client.
ProviderError == [ok |-> FALSE, value |-> None]

\* Largest number of transactions in a block.
MaxBlockTxs == 2
\* A block: its base fee, if any, and the max_fee_per_gas of each of its
\* transactions, None for a legacy transaction.
Blocks ==
    [base_fee_per_gas : {None, Some(1)},
     transactions : UNION {[1..n -> {None, Some(2)}] : n \in 0..MaxBlockTxs}]
\* get_block / get_block_with_txs: an error, no block, or the latest block.
BlockReplies == {ProviderError, [ok |-> TRUE, value |-> None]} \cup {Ok(b) : b \in Blocks}

\* The hash of a transaction: sender and nonce identify it.
transaction_hash(tx) == <<tx.from, tx.nonce>>

\* Result of a transfer: the transaction hash, or a TransferError.
TransferOk(hash) == [ok |-> TRUE, hash |-> Some(hash), err |-> "None"]
TransferErr(e) == [ok |-> FALSE, hash |-> None, err |-> e]

\* ------------------------------------------------------------------ poller

\* A paid test that leaves the boundary out.
check_if_native_received_Strict(balance_of_recipient, amount) ==
    balance_of_recipient > amount

\* check_if_native_received: the paid test on a balance the ledger returned.
check_if_native_received(balance_of_recipient, amount) ==
    balance_of_recipient >= amount

\* A check that takes a failed query for a payment.
check_and_process_ErrPaid(reply, invoice) ==
    IF reply.ok THEN check_if_native_received(Unwrap(reply.value), invoice.amount)
    ELSE TRUE

\* check_and_process for a native invoice: a failed query counts as not paid.
check_and_process(reply, invoice) ==
    IF reply.ok THEN check_if_native_received(Unwrap(reply.value), invoice.amount)
    ELSE FALSE

\* A loop without an expiry test before the payment check.
is_expired_Never(time, invoice) == FALSE

\* An expiry test that is one second early.
is_expired_Early(time, invoice) == time >= invoice.expires

\* An expiry test that is one second late.
is_expired_Late(time, invoice) == time > invoice.expires + 1

\* The expiry test of poll_payments.
is_expired(time, invoice) == time > invoice.expires

\* A notified invoice whose key bytes were wiped.
settle_Wiped(invoice, result, time) ==
    [invoice EXCEPT !.hash = IF result.ok THEN result.hash ELSE @,
                    !.paid_at_timestamp = time,
                    !.wallet = [inner |-> <<>>]]

\* A notified invoice without the time it was paid at.
settle_Untimed(invoice, result, time) ==
    [invoice EXCEPT !.hash = IF result.ok THEN result.hash ELSE @]

\* poll_payments, the invoice it notifies: the hash on success, and the
\* clock read after the transfer returned.
settle(invoice, result, time) ==
    [invoice EXCEPT !.hash = IF result.ok THEN result.hash ELSE @,
                    !.paid_at_timestamp = time]

\* poll_payments from the return of transfer_to_treasury to the sleep:
\* the invoice leaves the map and is sent through the reflector, for a
\* receipt and for an error alike.  The record of the send keeps the step
\* of the transfer that returned the result.
transfer_returns(result) ==
    LET key == Head(all)[1]
        invoice == settle(Head(all)[2], result, now)
    IN /\ invoices' = Remove(invoices, key)
       /\ channel' = IF receiver_open THEN Append(channel, <<key, invoice>>)
                     ELSE channel
       /\ sends' = Append(sends, [key |-> key, invoice |-> invoice,
                                  result |-> result,
                                  detected_at |-> xfer.detected_at,
                                  at |-> now,
                                  step |-> pc,
                                  delivered |-> receiver_open])
       /\ xfer' = NoXfer
       /\ pc' = "invoice_sleep"
       /\ wake' = now + config.poller_delay_seconds
       /\ UNCHANGED <<config, minted, next_addr, receiver_open, all, checked>>

\* The top of the loop: get_all_invoices, then the for loop starts.
poll_get_all ==
    /\ pc = "loop"
    /\ all' = get_all_invoices(invoices)
    /\ pc' = "for"
    /\ UNCHANGED <<now, gatewayVars, ledgerVars, xfer, wake, checked, historyVars>>

\* The for loop is over: the sleep after the pass.
poll_pass_done ==
    /\ pc = "for"
    /\ all = <<>>
    /\ pc' = "pass_sleep"
    /\ wake' = now + config.poller_delay_seconds
    /\ UNCHANGED <<now, gatewayVars, ledgerVars, all, xfer, checked, historyVars>>

poll_pass_wake ==
    /\ pc = "pass_sleep"
    /\ now >= wake
    /\ pc' = "loop"
    /\ wake' = 0
    /\ UNCHANGED <<now, gatewayVars, ledgerVars, all, xfer, checked, historyVars>>

\* The next invoice is past its expiry: removed, and the loop continues.
poll_expired ==
    /\ pc = "for"
    /\ all # <<>>
    /\ is_expired(now, Head(all)[2])
    /\ invoices' = Remove(invoices, Head(all)[1])
    /\ all' = Tail(all)
    /\ expired' = expired \cup {Head(all)[1]}
    /\ UNCHANGED <<now, config, minted, next_addr, channel, receiver_open,
                   ledgerVars, pc, xfer, wake, checked, created, funded, query_at,
                   sweeps, sends, fee, call, heap>>

\* The next invoice is not expired: its balance is queried.
poll_check ==
    /\ pc = "for"
    /\ all # <<>>
    /\ ~is_expired(now, Head(all)[2])
    /\ pc' = "get_balance"
    /\ query_at' = [query_at EXCEPT ![Head(all)[1]] = now]
    /\ UNCHANGED <<now, gatewayVars, ledgerVars, all, xfer, wake, checked,
                   created, funded, sweeps, expired, sends, fee, call, heap>>

\* The balance query returns and the invoice is not paid (or the query
\* failed): the sleep after the invoice.
poll_not_paid ==
    /\ pc = "get_balance"
    /\ \E reply \in {ProviderError, Ok(balance[Head(all)[2].to])} :
           /\ ~check_and_process(reply, Head(all)[2])
           /\ checked' = reply
    /\ pc' = "invoice_sleep"
    /\ wake' = now + config.poller_delay_seconds
    /\ UNCHANGED <<now, gatewayVars, ledgerVars, all, xfer, historyVars>>

\* The balance query returns and the invoice is paid: transfer_to_treasury
\* is called; transfer_gas_to_treasury restores the signer and asks for the
\* chain id.
poll_paid ==
    /\ pc = "get_balance"
    /\ \E reply \in {ProviderError, Ok(balance[Head(all)[2].to])} :
           /\ check_and_process(reply, Head(all)[2])
           /\ checked' = reply
    /\ sweeps' = [sweeps EXCEPT ![Head(all)[1]] = @ + 1]
    /\ xfer' = [NoXfer EXCEPT !.key = Head(all)[1], !.detected_at = now]
    /\ pc' = IF from_bytes(Head(all)[2].wallet.inner).ok
             THEN "get_chain_id" ELSE "panicked"
    /\ UNCHANGED <<now, gatewayVars, ledgerVars, all, wake, created, funded,
                   query_at, expired, sends, fee, call, heap>>

\* The sleep after an invoice ends: the for loop moves on.
poll_invoice_wake ==
    /\ pc = "invoice_sleep"
    /\ now >= wake
    /\ all' = Tail(all)
    /\ pc' = "for"
    /\ wake' = 0
    /\ checked' = NoReply
    /\ fee' = NoFee
    /\ UNCHANGED <<now, gatewayVars, ledgerVars, xfer, created, funded, query_at,
                   sweeps, expired, sends, call, heap>>

\* ------------------------------------------------------------------ transfer

\* The gas limit the legacy transfer drafts its transaction with.
DefaultGasLimit == 21000

\* What the poller leaves alone while a transfer step only moves on.
transfer_frame ==
    UNCHANGED <<now, gatewayVars, ledgerVars, all, wake, checked, created,
                funded, query_at, sweeps, expired, sends, call, heap>>
\* What a returning transfer leaves alone besides transfer_returns' part.
return_frame ==
    UNCHANGED <<now, ledgerVars, created, funded, query_at, sweeps, expired, call, heap>>

\* transfer_gas_to_treasury: the steps of the three queries it makes before
\* the match on the transaction type.
FirstQueries == {"get_chain_id", "get_gas_price", "get_native_balance"}

\* transfer_gas_to_treasury: get_chain_id
transfer_get_chain_id ==
    /\ pc = "get_chain_id"
    /\ \/ /\ pc' = "get_gas_price"
          /\ UNCHANGED <<xfer, fee>>
          /\ transfer_frame
       \/ /\ transfer_returns(TransferErr("EthersError"))
          /\ UNCHANGED fee
          /\ return_frame

\* A transfer that asks for the legacy gas price but, in the fee-market
\* style where the price is not used, goes on when the query fails.
transfer_get_gas_price_Unused ==
    /\ pc = "get_gas_price"
    /\ \/ \E gas_price \in GasPrices :
              /\ xfer' = [xfer EXCEPT !.gas_price = gas_price]
              /\ pc' = "get_native_balance"
              /\ UNCHANGED fee
              /\ transfer_frame
       \/ IF config.transaction_type = "Eip1559"
          THEN /\ pc' = "get_native_balance"
               /\ UNCHANGED <<xfer, fee>>
               /\ transfer_frame
          ELSE /\ transfer_returns(TransferErr("EthersError"))
               /\ UNCHANGED fee
               /\ return_frame

\* transfer_gas_to_treasury: get_gas_price, asked for in both styles
transfer_get_gas_price ==
    /\ pc = "get_gas_price"
    /\ \/ \E gas_price \in GasPrices :
              /\ xfer' = [xfer EXCEPT !.gas_price = gas_price]
              /\ pc' = "get_native_balance"
              /\ UNCHANGED fee
              /\ transfer_frame
       \/ /\ transfer_returns(TransferErr("EthersError"))
          /\ UNCHANGED fee
          /\ return_frame

\* transfer_gas_to_treasury: get_native_balance of the invoice address, then
\* the match on the transaction type.
transfer_get_native_balance ==
    /\ pc = "get_native_balance"
    /\ \/ /\ xfer' = [xfer EXCEPT !.balance = balance[Head(all)[2].to]]
          /\ pc' = IF config.transaction_type = "Legacy"
                   THEN "legacy_estimate_gas" ELSE "get_block"
          /\ UNCHANGED fee
          /\ transfer_frame
       \/ /\ transfer_returns(TransferErr("EthersError"))
          /\ UNCHANGED fee
          /\ return_frame

\* transfer_gas_to_treasury_legacy: the value left after the maximum cost.
legacy_value(balance_, gas_limit, gas_price) ==
    saturating_sub(balance_, gas_limit * gas_price)

\* A transaction that takes the nonce the ledger accepts next.
legacy_transaction_NextNonce(invoice, balance_, gas_estimate, gas_price) ==
    [from |-> invoice.to, nonce |-> account_nonce(invoice.to), gas |-> gas_estimate,
     price |-> gas_price, priority |-> gas_price,
     value |-> legacy_value(balance_, gas_estimate, gas_price)]

\* transfer_gas_to_treasury_legacy: the transaction request with the
\* estimated gas and the value recomputed for it.
legacy_transaction(invoice, balance_, gas_estimate, gas_price) ==
    [from |-> invoice.to, nonce |-> 0, gas |-> gas_estimate, price |-> gas_price,
     priority |-> gas_price,
     value |-> legacy_value(balance_, gas_estimate, gas_price)]

\* transfer_gas_to_treasury_legacy: a draft with the default gas limit goes
\* to estimate_gas_on_transaction; the transaction is rebuilt from the
\* estimate.  A failed estimate is reported as SendTransaction.
legacy_estimate_gas ==
    /\ pc = "legacy_estimate_gas"
    /\ legacy_value(xfer.balance, DefaultGasLimit, xfer.gas_price) \in Nat
    /\ \/ \E gas_estimate \in GasEstimates :
              /\ xfer' = [xfer EXCEPT !.tx = Some(legacy_transaction(
                              Head(all)[2], xfer.balance, gas_estimate, xfer.gas_price))]
              /\ pc' = "send_transaction"
              /\ UNCHANGED fee
              /\ transfer_frame
       \/ /\ transfer_returns(TransferErr("SendTransaction"))
          /\ UNCHANGED fee
          /\ return_frame

\* The arguments transfer_gas_to_treasury_eip1559 calls
\* estimate_eip1559_fees_with_retry with.
retry_arguments(configuration) ==
    [max_retries |-> configuration.eip1559_estimation_retry_max,
     delay_seconds_in_between_retries |-> configuration.eip1559_estimation_retry_max]

\* transfer_gas_to_treasury_eip1559: the base fee of the latest block; a
\* provider error is EthersError, a missing block or base fee is BaseFee.
\* With a base fee, estimate_eip1559_fees_with_retry starts with retries = 0;
\* without one the transfer returns before that call, at no attempt.
eip1559_get_block ==
    /\ pc = "get_block"
    /\ \E reply \in BlockReplies :
        IF ~reply.ok
        THEN /\ transfer_returns(TransferErr("EthersError"))
             /\ UNCHANGED fee
             /\ return_frame
        ELSE IF reply.value = None \/ Unwrap(reply.value).base_fee_per_gas = None
        THEN /\ transfer_returns(TransferErr("BaseFee"))
             /\ fee' = [NoFee EXCEPT !.result = "BaseFee",
                            !.max_retries = retry_arguments(config).max_retries,
                            !.block = reply.value]
             /\ return_frame
        ELSE /\ xfer' = [xfer EXCEPT
                            !.base_fee = Unwrap(Unwrap(reply.value).base_fee_per_gas),
                            !.retries = 0]
             /\ fee' = [NoFee EXCEPT !.result = "running",
                            !.max_retries = retry_arguments(config).max_retries]
             /\ pc' = "estimate_eip1559_fees"
             /\ transfer_frame

RECURSIVE SumSeq(_)
SumSeq(s) == IF s = <<>> THEN 0 ELSE Head(s) + SumSeq(Tail(s))

FeeErr(e) == [ok |-> FALSE, fees |-> <<0, 0>>, err |-> e]

\* estimate_eip1559_fees on the reply of get_block_with_txs: the averages of
\* max_fee_per_gas and of max_fee_per_gas - base_fee, summed over the
\* transactions that carry a max fee and divided by the number of all
\* transactions of the block.
estimate_eip1559_fees(reply) ==
    IF ~reply.ok THEN FeeErr("EthersError")
    ELSE IF reply.value = None THEN FeeErr("NoTransactionsInBlock")
    ELSE LET block == Unwrap(reply.value)
             txs == block.transactions
             count == Len(txs)
         IN IF block.base_fee_per_gas = None THEN FeeErr("NoBaseFeeInBlock")
            ELSE IF count = 0 THEN FeeErr("NoTransactionsInBlock")
            ELSE LET base_fee == Unwrap(block.base_fee_per_gas)
                     total_max_fee ==
                         SumSeq([i \in 1..count |->
                             IF txs[i] = None THEN 0 ELSE Unwrap(txs[i])])
                     total_priority_fee ==
                         SumSeq([i \in 1..count |->
                             IF txs[i] = None THEN 0
                             ELSE saturating_sub(Unwrap(txs[i]), base_fee)])
                 IN [ok |-> TRUE, err |-> "None",
                     fees |-> <<total_max_fee \div count, total_priority_fee \div count>>]

\* A loop that retries on every error.
is_retryable_Any(e) == TRUE

\* The errors estimate_eip1559_fees_with_retry retries on.
is_retryable(e) == e \in {"NoTransactionsInBlock", "NoBaseFeeInBlock"}

\* A test that allows one retry more.
retries_exhausted_Late(retries, max_retries) == retries > max_retries

\* estimate_eip1559_fees_with_retry: the test that ends the retries.
retries_exhausted(retries, max_retries) == retries >= max_retries

\* A fee that is the estimated maximum fee alone.
max_fee_per_gas_Estimated(estimated_max_fee, base_fee, estimated_priority_fee) ==
    estimated_max_fee

\* transfer_gas_to_treasury_eip1559: the fee the transaction offers.
max_fee_per_gas(estimated_max_fee, base_fee, estimated_priority_fee) ==
    IF estimated_max_fee >= base_fee + estimated_priority_fee
    THEN estimated_max_fee ELSE base_fee + estimated_priority_fee

\* One turn of the loop of estimate_eip1559_fees_with_retry.  On fees the
\* transfer goes on to its gas estimate; on a retryable error the retries
\* are counted and the task sleeps, or the call returns its error when they
\* are used up; another error returns at once.  The transfer reports every
\* error of the call as SendTransaction.
eip1559_estimate_fees ==
    /\ pc = "estimate_eip1559_fees"
    /\ \E reply \in BlockReplies :
        LET got == estimate_eip1559_fees(reply)
            tried == [fee EXCEPT !.attempts = @ + 1,
                                 !.block = IF reply.ok THEN reply.value ELSE None,
                                 !.err = got.err]
        IN IF got.ok
           THEN /\ fee' = [tried EXCEPT !.result = "ok", !.fees = got.fees]
                /\ xfer' = [xfer EXCEPT !.max_fee_per_gas =
                                max_fee_per_gas(got.fees[1], xfer.base_fee, got.fees[2]),
                                !.priority_fee = got.fees[2]]
                /\ pc' = "eip1559_estimate_gas"
                /\ transfer_frame
           ELSE IF is_retryable(got.err)
           THEN IF retries_exhausted(xfer.retries, retry_arguments(config).max_retries)
                THEN /\ fee' = [tried EXCEPT !.result = "NoTransactionsInBlock"]
                     /\ transfer_returns(TransferErr("SendTransaction"))
                     /\ return_frame
                ELSE /\ xfer' = [xfer EXCEPT !.retries = @ + 1]
                     /\ fee' = [tried EXCEPT !.sleeps = Append(@,
                                    retry_arguments(config).delay_seconds_in_between_retries)]
                     /\ wake' = now + retry_arguments(config).delay_seconds_in_between_retries
                     /\ pc' = "retry_sleep"
                     /\ UNCHANGED <<now, gatewayVars, ledgerVars, all, checked,
                                    created, funded, query_at, sweeps, expired,
                                    sends, call, heap>>
           ELSE /\ fee' = [tried EXCEPT !.result = got.err]
                /\ transfer_returns(TransferErr("SendTransaction"))
                /\ return_frame

\* The sleep between two attempts ends.
eip1559_retry_wake ==
    /\ pc = "retry_sleep"
    /\ now >= wake
    /\ pc' = "estimate_eip1559_fees"
    /\ wake' = 0
    /\ UNCHANGED <<now, gatewayVars, ledgerVars, all, xfer, checked, historyVars>>

\* transfer_gas_to_treasury_eip1559: the transaction with the estimated gas
\* and the balance less the maximum total fee.
eip1559_transaction(invoice, balance_, gas_estimate, max_fee, priority_fee) ==
    [from |-> invoice.to, nonce |-> 0, gas |-> gas_estimate, price |-> max_fee,
     priority |-> priority_fee,
     value |-> saturating_sub(balance_, max_fee * gas_estimate)]

\* transfer_gas_to_treasury_eip1559: estimate_gas_on_transaction
eip1559_estimate_gas ==
    /\ pc = "eip1559_estimate_gas"
    /\ \/ \E gas_estimate \in GasEstimates :
              /\ xfer' = [xfer EXCEPT !.tx = Some(eip1559_transaction(
                              Head(all)[2], xfer.balance, gas_estimate,
                              xfer.max_fee_per_gas, xfer.priority_fee))]
              /\ pc' = "send_transaction"
              /\ UNCHANGED fee
              /\ transfer_frame
       \/ /\ transfer_returns(TransferErr("SendTransaction"))
          /\ UNCHANGED fee
          /\ return_frame

\* transmit_transaction: send_transaction signs and submits; the ledger
\* holds the transaction from then on.
transmit_send_transaction ==
    /\ pc = "send_transaction"
    /\ \/ /\ pending' = pending \cup xfer.tx
          /\ pc' = "confirmations"
          /\ UNCHANGED <<now, gatewayVars, balance, treasury, mined, all, xfer,
                         wake, checked, historyVars>>
       \/ /\ transfer_returns(TransferErr("SendTransaction"))
          /\ UNCHANGED fee
          /\ return_frame

\* transmit_transaction: the wait for the confirmations returns the receipt
\* of the mined transaction, whose hash is the transfer's result.
transmit_confirmed ==
    /\ pc = "confirmations"
    /\ xfer.tx # None
    /\ Unwrap(xfer.tx) \notin pending
    /\ Unwrap(xfer.tx).from \in mined
    /\ transfer_returns(TransferOk(transaction_hash(Unwrap(xfer.tx))))
    /\ UNCHANGED fee
    /\ return_frame

\* transmit_transaction: the wait fails or yields no receipt.  The
\* transaction stays with the ledger.
transmit_not_confirmed ==
    /\ pc = "confirmations"
    /\ transfer_returns(TransferErr("TransactionNotConfirmed"))
    /\ UNCHANGED fee
    /\ return_frame

\* ------------------------------------------------------------------ Spec

\* The environment and the poller up to the transfer.
Environment ==
    \/ Tick
    \/ Pay
    \/ MineTx

Poller ==
    \/ spawn_poll_payments
    \/ poll_get_all
    \/ poll_pass_done
    \/ poll_pass_wake
    \/ poll_expired
    \/ poll_check
    \/ poll_not_paid
    \/ poll_paid
    \/ poll_invoice_wake
    \/ transfer_get_chain_id
    \/ transfer_get_gas_price
    \/ transfer_get_native_balance
    \/ transmit_send_transaction
    \/ transmit_confirmed
    \/ transmit_not_confirmed

\* A gateway configured for legacy transactions.
Next ==
    \/ Environment
    \/ Poller
    \/ new_invoice(MaxInvoices)
    \/ legacy_estimate_gas

Spec == Init /\ [][Next]_vars

\* A gateway configured for fee-market transactions.
NextEip1559 ==
    \/ Environment
    \/ Poller
    \/ new_invoice(MaxEip1559Invoices)
    \/ DropReceiver
    \/ eip1559_get_block
    \/ eip1559_estimate_fees
    \/ eip1559_retry_wake
    \/ eip1559_estimate_gas

SpecEip1559 == Construct(Eip1559Configs) /\ [][NextEip1559]_vars

\* ------------------------------------------------------------------ sled

\* The earlier poller: the invoices live in a sled tree, whose operations
\* can fail, and a paid invoice goes to the configured callback.

\* Largest number of transfers the earlier poller starts for one invoice.
MaxSweeps == 2
SledExpires == {1, 3}

SledConfigs == [invoice_delay_millis : {1000}, transfer_gas_limit : {None, Some(1)}]

\* The Invoice of the earlier poller.
SledInvoice(to, amount, expires) ==
    [to |-> to,
     wallet |-> [inner |-> signer_bytes(to)],
     amount |-> amount,
     method |-> [token_address |-> None],
     message |-> <<116>>,
     paid_at_timestamp |-> 0,
     expires |-> expires,
     receipt |-> None]

\* Serializable::to_bin of an Invoice: its fields in the order of their
\* declaration.
to_bin(data) ==
    <<data.to, data.wallet.inner, data.amount, data.method.token_address,
      data.message, data.paid_at_timestamp, data.expires, data.receipt>>

\* Serializable::from_bin: the Invoice of the bytes, or the error
\* Deserialize for bytes that are no serialized Invoice.
from_bin(bin) ==
    IF Len(bin) # 8 THEN [ok |-> FALSE, value |-> None]
    ELSE [ok |-> TRUE,
          value |-> Some([to |-> bin[1],
                          wallet |-> [inner |-> bin[2]],
                          amount |-> bin[3],
                          method |-> [token_address |-> bin[4]],
                          message |-> bin[5],
                          paid_at_timestamp |-> bin[6],
                          expires |-> bin[7],
                          receipt |-> bin[8]])]


\* What the tree keeps for bytes that from_bin rejects.  The trees hold
\* every other entry as the Invoice its bytes deserialize to.
UndecodableEntry ==
    [to |-> 0, wallet |-> [inner |-> <<>>], amount |-> 0,
     method |-> [token_address |-> None], message |-> <<>>,
     paid_at_timestamp |-> 0, expires |-> 0, receipt |-> None]

\* The entry of the tree for the bytes bin.
stored(bin) == IF from_bin(bin).ok THEN Unwrap(from_bin(bin).value) ELSE UndecodableEntry

\* T::from_bin succeeds on the bytes of the entry.
decodes(entry) == entry # UndecodableEntry

\* The trees the poller can find on disk when it starts: under every key
\* an invoice of the address of that number.
SledTrees ==
    UNION {[ks -> {SledInvoice(0, a, e) : a \in Amounts, e \in SledExpires}]
           : ks \in SUBSET Keys}

\* The task poll_payments(gateway) starts on a tree that was filled before.
InitSled ==
    /\ now = 1
    /\ config \in SledConfigs
    /\ \E tree \in SledTrees, corrupt \in SUBSET Keys, garbage \in SUBSET Keys :
           /\ corrupt \subseteq DOMAIN tree
           /\ garbage \subseteq DOMAIN tree \ corrupt
           /\ invoices = [k \in DOMAIN tree |->
                  IF k \in garbage THEN stored(<<>>)
                  ELSE [tree[k] EXCEPT
                           !.to = k,
                           !.wallet = [inner |-> IF k \in corrupt THEN <<>>
                                                 ELSE signer_bytes(k)]]]
    /\ minted = DOMAIN invoices
    /\ next_addr = MaxInvoices + 1
    /\ channel = <<>>
    /\ receiver_open = TRUE
    /\ balance = [a \in Addrs |-> 0]
    /\ treasury = 0
    /\ pending = {}
    /\ mined = {}
    /\ pc = "sled_loop"
    /\ all = <<>>
    /\ xfer = NoXfer
    /\ wake = 0
    /\ checked = NoReply
    /\ created = [k \in {} |-> 0]
    /\ funded = {}
    /\ query_at = [k \in Keys |-> 0]
    /\ sweeps = [k \in Keys |-> 0]
    /\ expired = {}
    /\ sends = <<>>
    /\ fee = NoFee
    /\ call = NoCall
    /\ heap = NoHeap

\* tokio::time::sleep of invoice_delay_millis, on the clock of seconds.
sled_delay_seconds(configuration) == configuration.invoice_delay_millis \div 1000

\* db::delete through delete_invoice: the key is removed, or sled reports
\* an error, which delete_invoice logs, and the tree keeps the key.
delete_invoice(tree, key, sled_ok) == IF sled_ok THEN Remove(tree, key) ELSE tree

DbOk(v) == [ok |-> TRUE, value |-> Some(v), err |-> "None"]
DbErr(kind) == [ok |-> FALSE, value |-> None, err |-> kind]

\* Tree::last: the entry of the greatest key.
Last(tree) ==
    LET key == CHOOSE k \in DOMAIN tree : \A other \in DOMAIN tree : other <= k
    IN <<key, tree[key]>>

\* db::get
db_get(tree, key, sled_ok) ==
    IF ~sled_ok THEN DbErr("Sled")
    ELSE IF key \notin DOMAIN tree THEN DbErr("NotFound")
    ELSE IF ~decodes(tree[key]) THEN DbErr("Deserialize")
    ELSE DbOk(tree[key])

\* db::get_all: the first entry that does not deserialize ends the call
\* with its error.
db_get_all(tree, sled_ok) ==
    IF ~sled_ok THEN DbErr("Get")
    ELSE IF \E k \in DOMAIN tree : ~decodes(tree[k]) THEN DbErr("Deserialize")
    ELSE DbOk(get_all_invoices(tree))

\* db::get_last
db_get_last(tree, sled_ok) ==
    IF ~sled_ok THEN DbErr("Sled")
    ELSE IF DOMAIN tree = {} THEN DbErr("NotFound")
    ELSE IF ~decodes(Last(tree)[2]) THEN DbErr("Deserialize")
    ELSE DbOk(Last(tree))

\* db::set
db_set(tree, key, data, sled_ok) ==
    IF ~sled_ok THEN DbErr("Communicate") ELSE DbOk(<<>>)

\* A set that reports success and leaves the tree as it was.
db_set_tree_Dropped(tree, key, data, sled_ok) == tree

\* db::set, the tree it leaves: the bytes of to_bin under the key.
db_set_tree(tree, key, data, sled_ok) ==
    IF sled_ok THEN Insert(tree, key, stored(to_bin(data))) ELSE tree

\* A delete that reports success for a key the tree does not hold.
db_delete_Lenient(tree, key, sled_ok) ==
    IF ~sled_ok THEN DbErr("Sled") ELSE DbOk(<<>>)

\* db::delete
db_delete(tree, key, sled_ok) ==
    IF ~sled_ok THEN DbErr("Sled")
    ELSE IF key \in DOMAIN tree THEN DbOk(<<>>)
    ELSE DbErr("NotFound")

sled_frame ==
    UNCHANGED <<now, gatewayVars, ledgerVars, all, wake, checked, historyVars>>

\* poll_payments calls db::get_all: the tree in the order of its keys, or
\* an error of sled or of the deserialization of an entry, after which the
\* pass is over.  call keeps the outcome of the latest get_all.
sled_get_all ==
    /\ pc = "sled_loop"
    /\ \E sled_ok \in BOOLEAN :
           LET got == db_get_all(invoices, sled_ok)
           IN /\ call' = [op |-> "get_all", key |-> 0, panicked |-> FALSE,
                          result |-> [ok |-> got.ok, value |-> None, err |-> got.err]]
              /\ IF got.ok
                 THEN /\ all' = Unwrap(got.value)
                      /\ pc' = "sled_for"
                      /\ UNCHANGED wake
                 ELSE /\ pc' = "sled_pass_sleep"
                      /\ wake' = now + sled_delay_seconds(config)
                      /\ UNCHANGED all
    /\ UNCHANGED <<now, gatewayVars, ledgerVars, xfer, checked, created, funded,
                   query_at, sweeps, expired, sends, fee, heap>>

sled_pass_done ==
    /\ pc = "sled_for"
    /\ all = <<>>
    /\ pc' = "sled_pass_sleep"
    /\ wake' = now + sled_delay_seconds(config)
    /\ UNCHANGED <<now, gatewayVars, ledgerVars, all, xfer, checked, historyVars>>

sled_pass_wake ==
    /\ pc = "sled_pass_sleep"
    /\ now >= wake
    /\ pc' = "sled_loop"
    /\ wake' = 0
    /\ UNCHANGED <<now, gatewayVars, ledgerVars, all, xfer, checked, historyVars>>

\* The entry is past its expiry: delete_invoice, and the loop continues.
sled_expired ==
    /\ pc = "sled_for"
    /\ all # <<>>
    /\ is_expired(now, Head(all)[2])
    /\ \E sled_ok \in BOOLEAN :
        /\ invoices' = delete_invoice(invoices, Head(all)[1], sled_ok)
        /\ expired' = IF sled_ok THEN expired \cup {Head(all)[1]} ELSE expired
    /\ all' = Tail(all)
    /\ UNCHANGED <<now, config, minted, next_addr, channel, receiver_open,
                   ledgerVars, pc, xfer, wake, checked, created, funded, query_at,
                   sweeps, sends, fee, call, heap>>

sled_check ==
    /\ pc = "sled_for"
    /\ all # <<>>
    /\ ~is_expired(now, Head(all)[2])
    /\ pc' = "sled_get_balance"
    /\ query_at' = [query_at EXCEPT ![Head(all)[1]] = now]
    /\ UNCHANGED <<now, gatewayVars, ledgerVars, all, xfer, wake, checked,
                   created, funded, sweeps, expired, sends, fee, call, heap>>

sled_not_paid ==
    /\ pc = "sled_get_balance"
    /\ \E reply \in {ProviderError, Ok(balance[Head(all)[2].to])} :
           /\ ~check_and_process(reply, Head(all)[2])
           /\ checked' = reply
    /\ pc' = "sled_invoice_sleep"
    /\ wake' = now + sled_delay_seconds(config)
    /\ UNCHANGED <<now, gatewayVars, ledgerVars, all, xfer, historyVars>>

\* The entry is paid: transfer_to_treasury, whose transfer_gas_to_treasury
\* restores the signer and asks for the chain id.
sled_paid ==
    /\ pc = "sled_get_balance"
    /\ \E reply \in {ProviderError, Ok(balance[Head(all)[2].to])} :
           /\ check_and_process(reply, Head(all)[2])
           /\ checked' = reply
    /\ sweeps[Head(all)[1]] < MaxSweeps
    /\ sweeps' = [sweeps EXCEPT ![Head(all)[1]] = @ + 1]
    /\ xfer' = [NoXfer EXCEPT !.key = Head(all)[1], !.detected_at = now]
    /\ pc' = IF from_bytes(Head(all)[2].wallet.inner).ok
             THEN "sled_get_chain_id" ELSE "panicked"
    /\ UNCHANGED <<now, gatewayVars, ledgerVars, all, wake, created, funded,
                   query_at, expired, sends, fee, call, heap>>

sled_invoice_wake ==
    /\ pc = "sled_invoice_sleep"
    /\ now >= wake
    /\ all' = Tail(all)
    /\ pc' = "sled_for"
    /\ wake' = 0
    /\ checked' = NoReply
    /\ UNCHANGED <<now, gatewayVars, ledgerVars, xfer, historyVars>>

\* poll_payments of the earlier poller from the return of
\* transfer_to_treasury on: the receipt is kept on success, delete_invoice
\* is called, and the callback gets the invoice whatever delete returned.
\* The future of the callback is awaited: it is ready at once, or the task
\* is suspended until the consumer's code completes it.
sled_transfer_returns(result) ==
    LET key == Head(all)[1]
        entry == [Head(all)[2] EXCEPT !.receipt = IF result.ok THEN result.hash ELSE @]
        invoice == [entry EXCEPT !.paid_at_timestamp = now]
    IN /\ \E sled_ok \in BOOLEAN : invoices' = delete_invoice(invoices, key, sled_ok)
       /\ sends' = Append(sends, [key |-> key, invoice |-> invoice,
                                  result |-> result,
                                  detected_at |-> xfer.detected_at,
                                  at |-> now,
                                  delivered |-> TRUE])
       /\ xfer' = NoXfer
       /\ \E ready \in BOOLEAN :
              IF ready
              THEN /\ pc' = "sled_invoice_sleep"
                   /\ wake' = now + sled_delay_seconds(config)
              ELSE /\ pc' = "sled_callback_pending"
                   /\ wake' = 0
       /\ UNCHANGED <<now, config, minted, next_addr, channel, receiver_open,
                      ledgerVars, all, checked, created, funded, query_at, sweeps,
                      expired, fee, call, heap>>

\* The consumer's callback completes: the sleep after the invoice starts.
sled_callback_returns ==
    /\ pc = "sled_callback_pending"
    /\ pc' = "sled_invoice_sleep"
    /\ wake' = now + sled_delay_seconds(config)
    /\ UNCHANGED <<now, gatewayVars, ledgerVars, all, xfer, checked, historyVars>>

\* transfer_gas_to_treasury of src/transfers: get_chain_id
sled_get_chain_id ==
    /\ pc = "sled_get_chain_id"
    /\ \/ /\ pc' = "sled_get_gas_price"
          /\ UNCHANGED xfer
          /\ sled_frame
       \/ sled_transfer_returns(TransferErr("ChainId"))

\* create_transaction: the gas limit of the configuration or 21000, and
\* the invoice's amount less the maximum cost as the value.
create_transaction(configuration, invoice, gas_price) ==
    LET gas_limit == IF configuration.transfer_gas_limit = None THEN DefaultGasLimit
                     ELSE Unwrap(configuration.transfer_gas_limit)
    IN [from |-> invoice.to, nonce |-> 0, gas |-> gas_limit, price |-> gas_price,
        priority |-> gas_price,
        value |-> saturating_sub(invoice.amount, gas_limit * gas_price)]

\* transfer_gas_to_treasury of src/transfers: get_gas_price, whose error is
\* reported as ChainId, then create_transaction builds and signs.
sled_get_gas_price ==
    /\ pc = "sled_get_gas_price"
    /\ \/ \E gas_price \in GasPrices :
              /\ xfer' = [xfer EXCEPT !.gas_price = gas_price,
                              !.tx = Some(create_transaction(config, Head(all)[2], gas_price))]
              /\ pc' = "sled_send_transaction"
              /\ sled_frame
       \/ sled_transfer_returns(TransferErr("ChainId"))
       \/ sled_transfer_returns(TransferErr("CreateTransaction"))

\* send_transaction: send_raw_transaction submits
sled_send_raw_transaction ==
    /\ pc = "sled_send_transaction"
    /\ \/ /\ pending' = pending \cup xfer.tx
          /\ pc' = "sled_get_receipt"
          /\ UNCHANGED <<now, gatewayVars, balance, treasury, mined, all, xfer,
                         wake, checked, historyVars>>
       \/ sled_transfer_returns(TransferErr("SendTransaction"))

\* send_transaction: get_receipt returns the receipt of the mined
\* transaction, or fails.
sled_get_receipt ==
    /\ pc = "sled_get_receipt"
    /\ \/ /\ Unwrap(xfer.tx) \notin pending
          /\ Unwrap(xfer.tx).from \in mined
          /\ sled_transfer_returns(TransferOk(transaction_hash(Unwrap(xfer.tx))))
       \/ sled_transfer_returns(TransferErr("SendTransaction"))

NextSled ==
    \/ Environment
    \/ sled_get_all
    \/ sled_pass_done
    \/ sled_pass_wake
    \/ sled_expired
    \/ sled_check
    \/ sled_not_paid
    \/ sled_paid
    \/ sled_invoice_wake
    \/ sled_callback_returns
    \/ sled_get_chain_id
    \/ sled_get_gas_price
    \/ sled_send_raw_transaction
    \/ sled_get_receipt

SpecSled == InitSled /\ [][NextSled]_vars

\* ------------------------------------------------------------------ value

\* The sweep value as the transfer engine computes it, on integers of the
\* program's widths scaled down: U256 has U256Bits bits, u128 half of them.

\* Width of U256.
U256Bits == 4
U256Max == 2 ^ U256Bits - 1
U128Max == 2 ^ (U256Bits \div 2) - 1
U256 == 0..U256Max

\* An arithmetic step panics, or returns a value.
Panicked == [panic |-> TRUE, value |-> 0]
Returned(v) == [panic |-> FALSE, value |-> v]

\* U256::as_u128 panics on a number that does not fit.
as_u128(x) == IF x <= U128Max THEN Returned(x) ELSE Panicked

\* The product of two u128: on overflow a build with overflow checks panics
\* and a build without them wraps.
u128_mul(a, b) ==
    IF a * b <= U128Max THEN {Returned(a * b)}
    ELSE {Panicked, Returned((a * b) % (U128Max + 1))}

\* U256::mul panics on overflow in every build.
u256_mul(a, b) == IF a * b <= U256Max THEN Returned(a * b) ELSE Panicked

\* transfer_gas_to_treasury_legacy: gas_estimate.as_u128() * gas_price.as_u128()
legacy_max_cost(gas_estimate, gas_price) ==
    IF as_u128(gas_estimate).panic \/ as_u128(gas_price).panic THEN {Panicked}
    ELSE u128_mul(as_u128(gas_estimate).value, as_u128(gas_price).value)

\* transfer_gas_to_treasury_legacy: balance.saturating_sub(U256::from(max_cost))
legacy_sweep_value(balance_, gas_estimate, gas_price) ==
    {IF c.panic THEN Panicked ELSE Returned(saturating_sub(balance_, c.value))
     : c \in legacy_max_cost(gas_estimate, gas_price)}

\* transfer_gas_to_treasury_eip1559:
\* balance.saturating_sub(max_fee_per_gas.mul(gas_estimate))
eip1559_sweep_value(balance_, gas_estimate, max_fee) ==
    LET max_total_fee == u256_mul(max_fee, gas_estimate)
    IN {IF max_total_fee.panic THEN Panicked
        ELSE Returned(saturating_sub(balance_, max_total_fee.value))}

\* The transfer stands before its gas estimate with a balance and a gas
\* price (or a maximum fee per gas) of the whole U256 range.
InitValue ==
    /\ now = 1
    /\ config \in LegacyConfigs \cup {c \in Eip1559Configs :
                                          c.eip1559_estimation_retry_max = 0}
    /\ invoices = [k \in {} |-> 0]
    /\ minted = {}
    /\ next_addr = 1
    /\ channel = <<>>
    /\ receiver_open = TRUE
    /\ balance = [a \in Addrs |-> 0]
    /\ treasury = 0
    /\ pending = {}
    /\ mined = {}
    /\ pc = IF config.transaction_type = "Legacy"
            THEN "legacy_estimate_gas" ELSE "eip1559_estimate_gas"
    /\ all = <<>>
    /\ \E b \in U256, p \in U256 :
           xfer = [NoXfer EXCEPT !.balance = b, !.gas_price = p,
                                 !.max_fee_per_gas = p]
    /\ wake = 0
    /\ checked = NoReply
    /\ created = [k \in {} |-> 0]
    /\ funded = {}
    /\ query_at = [k \in Keys |-> 0]
    /\ sweeps = [k \in Keys |-> 0]
    /\ expired = {}
    /\ sends = <<>>
    /\ fee = NoFee
    /\ call = NoCall
    /\ heap = NoHeap

value_frame ==
    UNCHANGED <<now, gatewayVars, ledgerVars, all, wake, checked, historyVars>>

\* transfer_gas_to_treasury_legacy from the gas estimate to the final
\* transaction: the value is recomputed with the estimated gas.
legacy_value_step ==
    /\ pc = "legacy_estimate_gas"
    /\ \E gas_estimate \in U256 :
       \E r \in legacy_sweep_value(xfer.balance, gas_estimate, xfer.gas_price) :
           IF r.panic
           THEN pc' = "panicked" /\ UNCHANGED xfer
           ELSE /\ pc' = "send_transaction"
                /\ xfer' = [xfer EXCEPT !.tx = Some(
                       [gas |-> gas_estimate, price |-> xfer.gas_price,
                        value |-> r.value])]
    /\ value_frame

\* transfer_gas_to_treasury_eip1559 from the gas estimate to the final
\* transaction.
eip1559_value_step ==
    /\ pc = "eip1559_estimate_gas"
    /\ \E gas_estimate \in U256 :
       \E r \in eip1559_sweep_value(xfer.balance, gas_estimate,
                                    xfer.max_fee_per_gas) :
           IF r.panic
           THEN pc' = "panicked" /\ UNCHANGED xfer
           ELSE /\ pc' = "send_transaction"
                /\ xfer' = [xfer EXCEPT !.tx = Some(
                       [gas |-> gas_estimate, price |-> xfer.max_fee_per_gas,
                        value |-> r.value])]
    /\ value_frame

NextValue == legacy_value_step \/ eip1559_value_step

SpecValue == InitValue /\ [][NextValue]_vars

\* ------------------------------------------------------------------ gateway calls

\* The application calls the gateway's functions with every input; no
\* poller runs.

TokenAddresses == {None, Some(1)}

\* new_invoice with either payment method.  The id is the SHA-256 of the
\* printed address and the millisecond of the call, a seed two invoices can
\* share: any id, one that is in the map included.
gateway_new_invoice ==
    \E token_address \in TokenAddresses, invoice_id \in Keys :
        new_invoice_call(MaxInvoices, token_address, invoice_id)

\* PaymentGateway::get_invoice
gateway_get_invoice ==
    \E key \in Keys :
        /\ call' = [op |-> "get_invoice", key |-> key, panicked |-> FALSE,
                    result |-> get_invoice(invoices, key)]
        /\ UNCHANGED <<now, gatewayVars, ledgerVars, pollerVars, created, funded,
                       query_at, sweeps, expired, sends, fee, heap>>

\* PaymentGateway::get_all_invoices
gateway_get_all_invoices ==
    /\ call' = [op |-> "get_all_invoices", key |-> 0, panicked |-> FALSE,
                result |-> [ok |-> TRUE, value |-> Some(get_all_invoices(invoices)),
                            err |-> "None"]]
    /\ UNCHANGED <<now, gatewayVars, ledgerVars, pollerVars, created, funded,
                   query_at, sweeps, expired, sends, fee, heap>>

NextGateway ==
    \/ Tick
    \/ gateway_new_invoice
    \/ gateway_get_invoice
    \/ gateway_get_all_invoices

SpecGateway == Init /\ [][NextGateway]_vars

\* ------------------------------------------------------------------ db

\* The functions of src/db/mod.rs on a sled tree, called by the application
\* with every key.  sled can fail each of them; the values in the tree are
\* the ones set, serialized by to_bin.

\* Number of invoices db::set is called with.
MaxSets == 3


db_frame ==
    UNCHANGED <<now, config, minted, channel, receiver_open, ledgerVars,
                pollerVars, funded, query_at, sweeps, expired, sends, fee,
                heap>>

\* The application stores the invoice of a fresh address under a key.
\* created keeps, for every key of the tree, the invoice db::set was last
\* called with and whether it replaced an entry.
db_set_call ==
    \E key \in Keys, amount \in Amounts, expires \in SledExpires,
       receipt \in {None, Some(1)}, sled_ok \in BOOLEAN :
        /\ next_addr <= MaxSets
        /\ LET data == [SledInvoice(next_addr, amount, expires) EXCEPT
                            !.receipt = receipt]
           IN /\ invoices' = db_set_tree(invoices, key, data, sled_ok)
              /\ created' = IF sled_ok
                            THEN Insert(created, key,
                                     [data |-> data,
                                      replaced |-> key \in DOMAIN invoices])
                            ELSE created
              /\ call' = [op |-> "set", key |-> key, panicked |-> FALSE,
                          result |-> db_set(invoices, key, data, sled_ok)]
        /\ next_addr' = next_addr + 1
        /\ db_frame

db_get_call ==
    \E key \in Keys, sled_ok \in BOOLEAN :
        /\ call' = [op |-> "get", key |-> key, panicked |-> FALSE,
                    result |-> db_get(invoices, key, sled_ok)]
        /\ UNCHANGED <<invoices, next_addr, created>>
        /\ db_frame

db_get_all_call ==
    \E sled_ok \in BOOLEAN :
        /\ call' = [op |-> "get_all", key |-> 0, panicked |-> FALSE,
                    result |-> db_get_all(invoices, sled_ok)]
        /\ UNCHANGED <<invoices, next_addr, created>>
        /\ db_frame

db_get_last_call ==
    \E sled_ok \in BOOLEAN :
        /\ call' = [op |-> "get_last", key |-> 0, panicked |-> FALSE,
                    result |-> db_get_last(invoices, sled_ok)]
        /\ UNCHANGED <<invoices, next_addr, created>>
        /\ db_frame

db_delete_call ==
    \E key \in Keys, sled_ok \in BOOLEAN :
        /\ invoices' = delete_invoice(invoices, key, sled_ok)
        /\ created' = delete_invoice(created, key, sled_ok)
        /\ call' = [op |-> "delete", key |-> key, panicked |-> FALSE,
                    result |-> db_delete(invoices, key, sled_ok)]
        /\ UNCHANGED next_addr
        /\ db_frame

NextDb ==
    \/ db_set_call
    \/ db_get_call
    \/ db_get_all_call
    \/ db_get_last_call
    \/ db_delete_call

SpecDb == Construct(SledConfigs) /\ [][NextDb]_vars

\* ------------------------------------------------------------------ tasks

\* PaymentGateway::poll_payments spawns one task of poll_payments per call.
\* Here pc, all, xfer, wake and checked hold one value per task, and the
\* ledger calls of one transfer_to_treasury are one step, taken when it
\* returns.

\* Number of calls of PaymentGateway::poll_payments.
MaxTasks == 2
Tasks == 1..MaxTasks
\* Number of invoices created while several tasks run.
MaxTaskInvoices == 1

InitTasks ==
    /\ now = 1
    /\ config \in LegacyConfigs
    /\ invoices = [k \in {} |-> 0]
    /\ minted = {}
    /\ next_addr = 1
    /\ channel = <<>>
    /\ receiver_open = TRUE
    /\ balance = [a \in Addrs |-> 0]
    /\ treasury = 0
    /\ pending = {}
    /\ mined = {}
    /\ pc = [t \in Tasks |-> "unspawned"]
    /\ all = [t \in Tasks |-> <<>>]
    /\ xfer = [t \in Tasks |-> NoXfer]
    /\ wake = [t \in Tasks |-> 0]
    /\ checked = [t \in Tasks |-> NoReply]
    /\ created = [k \in {} |-> 0]
    /\ funded = {}
    /\ query_at = [k \in Keys |-> 0]
    /\ sweeps = [k \in Keys |-> 0]
    /\ expired = {}
    /\ sends = <<>>
    /\ fee = NoFee
    /\ call = NoCall
    /\ heap = NoHeap

\* PaymentGateway::poll_payments: tokio::spawn of a new poll_payments task,
\* whatever tasks run already.
gateway_poll_payments ==
    \E t \in Tasks :
        /\ pc[t] = "unspawned"
        /\ \A u \in 1..(t - 1) : pc[u] # "unspawned"
        /\ pc' = [pc EXCEPT ![t] = "loop"]
        /\ UNCHANGED <<now, gatewayVars, ledgerVars, all, xfer, wake, checked,
                       historyVars>>

\* The top of the loop of task t: get_all_invoices.
task_get_all(t) ==
    /\ pc[t] = "loop"
    /\ all' = [all EXCEPT ![t] = get_all_invoices(invoices)]
    /\ pc' = [pc EXCEPT ![t] = "for"]
    /\ UNCHANGED <<now, gatewayVars, ledgerVars, xfer, wake, checked, historyVars>>

task_pass_done(t) ==
    /\ pc[t] = "for"
    /\ all[t] = <<>>
    /\ pc' = [pc EXCEPT ![t] = "pass_sleep"]
    /\ wake' = [wake EXCEPT ![t] = now + config.poller_delay_seconds]
    /\ UNCHANGED <<now, gatewayVars, ledgerVars, all, xfer, checked, historyVars>>

task_pass_wake(t) ==
    /\ pc[t] = "pass_sleep"
    /\ now >= wake[t]
    /\ pc' = [pc EXCEPT ![t] = "loop"]
    /\ wake' = [wake EXCEPT ![t] = 0]
    /\ UNCHANGED <<now, gatewayVars, ledgerVars, all, xfer, checked, historyVars>>

task_expired(t) ==
    /\ pc[t] = "for"
    /\ all[t] # <<>>
    /\ is_expired(now, Head(all[t])[2])
    /\ invoices' = Remove(invoices, Head(all[t])[1])
    /\ all' = [all EXCEPT ![t] = Tail(@)]
    /\ expired' = expired \cup {Head(all[t])[1]}
    /\ UNCHANGED <<now, config, minted, next_addr, channel, receiver_open,
                   ledgerVars, pc, xfer, wake, checked, created, funded, query_at,
                   sweeps, sends, fee, call, heap>>

\* The balance query of the next invoice goes to the ledger.
task_check(t) ==
    /\ pc[t] = "for"
    /\ all[t] # <<>>
    /\ ~is_expired(now, Head(all[t])[2])
    /\ pc' = [pc EXCEPT ![t] = "get_balance"]
    /\ query_at' = [query_at EXCEPT ![Head(all[t])[1]] = now]
    /\ UNCHANGED <<now, gatewayVars, ledgerVars, all, xfer, wake, checked,
                   created, funded, sweeps, expired, sends, fee, call, heap>>

task_not_paid(t) ==
    /\ pc[t] = "get_balance"
    /\ \E reply \in {ProviderError, Ok(balance[Head(all[t])[2].to])} :
           /\ ~check_and_process(reply, Head(all[t])[2])
           /\ checked' = [checked EXCEPT ![t] = reply]
    /\ pc' = [pc EXCEPT ![t] = "invoice_sleep"]
    /\ wake' = [wake EXCEPT ![t] = now + config.poller_delay_seconds]
    /\ UNCHANGED <<now, gatewayVars, ledgerVars, all, xfer, historyVars>>

\* The invoice is paid: transfer_to_treasury is called and is in flight.
task_paid(t) ==
    /\ pc[t] = "get_balance"
    /\ \E reply \in {ProviderError, Ok(balance[Head(all[t])[2].to])} :
           /\ check_and_process(reply, Head(all[t])[2])
           /\ checked' = [checked EXCEPT ![t] = reply]
    /\ sweeps[Head(all[t])[1]] < MaxSweeps
    /\ sweeps' = [sweeps EXCEPT ![Head(all[t])[1]] = @ + 1]
    /\ xfer' = [xfer EXCEPT ![t] = [NoXfer EXCEPT !.key = Head(all[t])[1],
                                                  !.detected_at = now]]
    /\ pc' = [pc EXCEPT ![t] = "transfer"]
    /\ UNCHANGED <<now, gatewayVars, ledgerVars, all, wake, created, funded,
                   query_at, expired, sends, fee, call, heap>>

\* What poll_payments does when transfer_to_treasury has returned.
task_after_transfer(t, result) ==
    LET key == Head(all[t])[1]
        invoice == settle(Head(all[t])[2], result, now)
    IN /\ invoices' = Remove(invoices, key)
       /\ channel' = IF receiver_open THEN Append(channel, <<key, invoice>>)
                     ELSE channel
       /\ sends' = Append(sends, [key |-> key, invoice |-> invoice,
                                  result |-> result,
                                  detected_at |-> xfer[t].detected_at,
                                  at |-> now,
                                  delivered |-> receiver_open])
       /\ xfer' = [xfer EXCEPT ![t] = NoXfer]
       /\ pc' = [pc EXCEPT ![t] = "invoice_sleep"]
       /\ wake' = [wake EXCEPT ![t] = now + config.poller_delay_seconds]
       /\ UNCHANGED <<now, config, minted, next_addr, receiver_open, all, checked,
                      created, funded, query_at, sweeps, expired, fee, call,
                      heap>>

\* transfer_to_treasury returns: with the hash of a transaction the ledger
\* has mined, or with an error.
task_transfer_returns(t) ==
    /\ pc[t] = "transfer"
    /\ \/ \E gas_price \in GasPrices, gas_estimate \in GasEstimates :
              LET invoice == Head(all[t])[2]
                  tx == legacy_transaction(invoice, balance[invoice.to],
                                           gas_estimate, gas_price)
              IN /\ tx.nonce = account_nonce(tx.from)
                 /\ balance[tx.from] >= tx.value + tx.gas * tx.price
                 /\ balance' = [balance EXCEPT
                                    ![tx.from] = @ - tx.value - tx.gas * tx.price]
                 /\ treasury' = treasury + tx.value
                 /\ mined' = mined \cup {tx.from}
                 /\ UNCHANGED pending
                 /\ task_after_transfer(t, TransferOk(transaction_hash(tx)))
       \/ /\ UNCHANGED ledgerVars
          /\ task_after_transfer(t, TransferErr("SendTransaction"))

task_invoice_wake(t) ==
    /\ pc[t] = "invoice_sleep"
    /\ now >= wake[t]
    /\ all' = [all EXCEPT ![t] = Tail(@)]
    /\ pc' = [pc EXCEPT ![t] = "for"]
    /\ wake' = [wake EXCEPT ![t] = 0]
    /\ checked' = [checked EXCEPT ![t] = NoReply]
    /\ UNCHANGED <<now, gatewayVars, ledgerVars, xfer, historyVars>>

NextTasks ==
    \/ Tick
    \/ Pay
    \/ new_invoice(MaxTaskInvoices)
    \/ gateway_poll_payments
    \/ \E t \in Tasks : task_get_all(t)
    \/ \E t \in Tasks : task_pass_done(t)
    \/ \E t \in Tasks : task_pass_wake(t)
    \/ \E t \in Tasks : task_expired(t)
    \/ \E t \in Tasks : task_check(t)
    \/ \E t \in Tasks : task_not_paid(t)
    \/ \E t \in Tasks : task_paid(t)
    \/ \E t \in Tasks : task_transfer_returns(t)
    \/ \E t \in Tasks : task_invoice_wake(t)

SpecTasks == InitTasks /\ [][NextTasks]_vars

\* ------------------------------------------------------------------ memory

\* The buffers that hold the key bytes of an invoice, by the place that
\* makes them, and what becomes of each: "none" (not made), "live", "wiped"
\* (dropped and overwritten: ZeroizedVec and SigningKey zeroize on drop),
\* "freed" (dropped with the bytes left in memory) or "sent" (moved to the
\* consumer of the channel).  heap maps the address of an invoice to the
\* state of its buffers.

NoBuffers ==
    [signer |-> "none", to_bytes |-> "none", returned |-> "none", map |-> "none",
     pass |-> "none", transfer |-> "none"]

memory_frame ==
    UNCHANGED <<now, gatewayVars, ledgerVars, pollerVars, created, funded,
                query_at, sweeps, expired, sends, fee, call>>

\* new_invoice: LocalWallet::new makes the signer, signer.signer().to_bytes()
\* a byte array that to_vec() copies into the ZeroizedVec of the invoice;
\* the array is a temporary of the statement and is dropped as a plain
\* array.  A clone of the invoice goes into the map, the invoice itself to
\* the caller, and the signer is dropped on return.
memory_new_invoice ==
    LET a == Cardinality(DOMAIN heap) + 1
    IN /\ a <= MaxInvoices
       /\ heap' = [b \in DOMAIN heap \cup {a} |->
                      IF b = a
                      THEN [NoBuffers EXCEPT !.signer = "wiped", !.to_bytes = "freed",
                                             !.returned = "live", !.map = "live"]
                      ELSE heap[b]]
       /\ memory_frame

\* The caller of new_invoice drops the invoice it got.
memory_caller_drops ==
    \E a \in DOMAIN heap :
        /\ heap[a].returned = "live"
        /\ heap' = [heap EXCEPT ![a].returned = "wiped"]
        /\ memory_frame

\* get_all_invoices at the top of a pass clones every entry of the map; the
\* vector of the pass before is consumed by then.
memory_get_all ==
    /\ \A a \in DOMAIN heap : heap[a].pass # "live"
    /\ \E a \in DOMAIN heap : heap[a].map = "live"
    /\ heap' = [a \in DOMAIN heap |->
                   IF heap[a].map = "live" THEN [heap[a] EXCEPT !.pass = "live"]
                   ELSE heap[a]]
    /\ memory_frame

\* The pass finds the invoice expired: the entry is removed from the map
\* and the clone of the pass is dropped.
memory_expired ==
    \E a \in DOMAIN heap :
        /\ heap[a].pass = "live" /\ heap[a].transfer = "none"
        /\ heap' = [heap EXCEPT ![a].map = "wiped", ![a].pass = "wiped"]
        /\ memory_frame

\* The pass finds the invoice not paid: its clone is dropped at the end of
\* the iteration.
memory_not_paid ==
    \E a \in DOMAIN heap :
        /\ heap[a].pass = "live" /\ heap[a].transfer = "none"
        /\ heap' = [heap EXCEPT ![a].pass = "wiped"]
        /\ memory_frame

\* The pass finds the invoice paid: transfer_gas_to_treasury restores the
\* signer from the clone's bytes.
memory_paid ==
    \E a \in DOMAIN heap :
        /\ heap[a].pass = "live" /\ heap[a].transfer = "none"
        /\ heap' = [heap EXCEPT ![a].transfer = "live"]
        /\ memory_frame

\* The transfer returns: its signer is dropped, the entry is removed from
\* the map and the clone of the pass is sent through the channel.
memory_transfer_returns ==
    \E a \in DOMAIN heap :
        /\ heap[a].transfer = "live"
        /\ heap' = [heap EXCEPT ![a].transfer = "wiped", ![a].map = "wiped",
                                ![a].pass = "sent"]
        /\ memory_frame

NextMemory ==
    \/ memory_new_invoice
    \/ memory_caller_drops
    \/ memory_get_all
    \/ memory_expired
    \/ memory_not_paid
    \/ memory_paid
    \/ memory_transfer_returns

SpecMemory == Init /\ [][NextMemory]_vars

\* ------------------------------------------------------------------ paid

\* check_and_process with every invoice and every reply of the ledger.

\* check_if_token_received: the paid test on a balance the token returned.
check_if_token_received(balance_of_recipient, amount) ==
    balance_of_recipient >= amount

\* check_and_process: the queries the match on the token address makes.
balance_queries(invoice) ==
    IF invoice.token_address # None THEN {"balance_of"} ELSE {"get_balance"}

\* A check that asks the ledger for the native balance of every invoice.
check_and_process_match_Native(native_reply, token_reply, invoice) ==
    check_and_process(native_reply, invoice)

\* check_and_process: the match on the token address.  native_reply is what
\* get_native_balance returns for invoice.to and token_reply what
\* ERC20Token::get_balance returns; a failed query counts as not paid.
check_and_process_match(native_reply, token_reply, invoice) ==
    IF invoice.token_address # None
    THEN IF token_reply.ok
         THEN check_if_token_received(Unwrap(token_reply.value), invoice.amount)
         ELSE FALSE
    ELSE check_and_process(native_reply, invoice)

\* The replies of a balance query.
BalanceReplies == {ProviderError} \cup {Ok(b) : b \in 0..MaxBalance}

\* The poller checks an invoice: call keeps the invoice, the two replies
\* and the outcome.
check_and_process_call ==
    \E to \in Addrs, amount \in 1..MaxBalance, token_address \in TokenAddresses,
       native_reply \in BalanceReplies, token_reply \in BalanceReplies :
        LET invoice == [NewInvoiceRecord(to, amount, <<116>>, 1, now) EXCEPT
                           !.token_address = token_address]
        IN /\ call' = [op |-> "check_and_process", key |-> to, panicked |-> FALSE,
                       result |-> [ok |-> check_and_process_match(
                                              native_reply, token_reply, invoice),
                                   value |-> None, err |-> "None"],
                       invoice |-> invoice,
                       native_reply |-> native_reply,
                       token_reply |-> token_reply,
                       queries |-> balance_queries(invoice)]
           /\ UNCHANGED <<now, gatewayVars, ledgerVars, pollerVars, created,
                          funded, query_at, sweeps, expired, sends, fee, heap>>

NextPaid ==
    \/ Tick
    \/ check_and_process_call

SpecPaid == Init /\ [][NextPaid]_vars

\* ------------------------------------------------------------------ claims

\* The calls of sender.send (or of the callback) for the invoice of a key.
SendsOf(k) == {i \in DOMAIN sends : sends[i].key = k}
\* The pairs the receiver got for the invoice of a key.
ChannelOf(k) == {i \in DOMAIN channel : channel[i][1] = k}

\* C1, as the claim states it: every invoice whose balance reached its
\* amount before its expires gets exactly one sweep attempt; so when such an
\* invoice has left the Store, it had that one attempt.
C1_FundedIsSweptOnce ==
    \A k \in funded :
        /\ sweeps[k] <= 1
        /\ k \notin DOMAIN invoices => sweeps[k] = 1

\* C1, amended: an invoice the poller visits while it is not past expires
\* and whose balance query returns at least the amount gets exactly one
\* sweep attempt; it is in the Store while the attempt runs and absent from
\* the Store, with one notification, once the attempt has returned, for a
\* receipt and for an error alike.  An invoice the expiry branch removed,
\* funded in time or not, never had a sweep attempt.
C1_VisitedPaidIsSweptOnce ==
    /\ checked.ok /\ Unwrap(checked.value) >= Head(all)[2].amount
           => sweeps[Head(all)[1]] = 1
    /\ \A k \in Keys :
        /\ sweeps[k] <= 1
        /\ xfer.key = k =>
               /\ sweeps[k] = 1
               /\ k \in DOMAIN invoices
               /\ query_at[k] <= invoices[k].expires
               /\ SendsOf(k) = {}
        /\ sweeps[k] = 1 /\ xfer.key # k =>
               /\ k \notin DOMAIN invoices
               /\ Cardinality(SendsOf(k)) = 1
        /\ k \in expired => sweeps[k] = 0

\* C1: one invoice funded in time was swept with an error and is gone, and
\* another invoice funded in time was removed by the expiry branch.
C1_Witness ==
    \E k \in funded, j \in funded :
        /\ k \notin DOMAIN invoices
        /\ \E i \in SendsOf(k) : ~sends[i].result.ok
        /\ j \in expired

\* C2, as the claim states it: over all passes an invoice gets at most one
\* sweep attempt and at most one notification, also when the sweep or the
\* Store's delete returned an error.
C2_AtMostOneSweepAndNotification ==
    \A k \in Keys :
        /\ sweeps[k] <= 1
        /\ Cardinality(SendsOf(k)) <= 1

\* C3: an invoice the poller visits past its expires is removed in that
\* visit: it is then not retrievable, it never had a sweep attempt or a
\* notification, and no balance query of any invoice is made at a clock
\* past the invoice's expires.
C3_ExpiredRemovedUntouched ==
    /\ \A k \in expired :
        /\ get_invoice(invoices, k).err = "NotFound"
        /\ sweeps[k] = 0
        /\ SendsOf(k) = {}
        /\ ChannelOf(k) = {}
    /\ \A k \in DOMAIN created : query_at[k] <= created[k].returned.expires
    /\ pc = "get_balance" => ~is_expired(query_at[Head(all)[1]], Head(all)[2])

\* C3: an unpaid invoice was removed by the expiry branch after a balance
\* query of an earlier pass had found it unexpired.
C3_Witness ==
    \E k \in expired :
        /\ balance[created[k].returned.to] = 0
        /\ query_at[k] > 0

C5_ExactAmountNotifiedOnce ==
    checked.ok /\ Unwrap(checked.value) = Head(all)[2].amount =>
        LET k == Head(all)[1]
        IN /\ sweeps[k] = 1
           /\ pc = "invoice_sleep" =>
                  /\ Cardinality(SendsOf(k)) = 1
                  /\ Cardinality(ChannelOf(k)) = 1
                  /\ \A i \in SendsOf(k) :
                         /\ sends[i].delivered
                         /\ sends[i].invoice.paid_at_timestamp > 0

\* C5: the visit of an invoice whose balance was exactly the amount is at
\* its sleep, the notification sent.
C5_Witness ==
    /\ pc = "invoice_sleep"
    /\ checked.ok
    /\ Unwrap(checked.value) = Head(all)[2].amount
    /\ SendsOf(Head(all)[1]) # {}

\* C6, as the claim states it: a notified invoice with a hash had its
\* funds transferred, and one without a hash has no sweep transaction that
\* is confirmed on the ledger, now or later.
C6_HashTellsTransfer ==
    \A i \in DOMAIN sends :
        /\ sends[i].invoice.hash # None => sends[i].invoice.to \in mined
        /\ sends[i].invoice.hash = None => sends[i].invoice.to \notin mined

VisitOver(k) ==
    \/ k \in expired
    \/ /\ query_at[k] > 0
       /\ all = <<>> \/ Head(all)[1] # k

\* C8, as the claim states it: an invoice created with expires_in_seconds
\* = 0 is, after a pass visited it at any time at or after its creation,
\* not retrievable, and no notification of it was sent.
C8_ZeroLifetimeGoneAfterVisit ==
    \A k \in DOMAIN created :
        created[k].expires_in_seconds = 0 /\ VisitOver(k) =>
            /\ get_invoice(invoices, k).err = "NotFound"
            /\ SendsOf(k) = {}

\* C8, amended: an invoice created with expires_in_seconds = 0 is expired
\* for every visit in a clock second after the second of its creation: such
\* a visit makes no balance query, and the invoice it removed is not
\* retrievable and was never notified.  Its balance is queried only within
\* the second of its creation.
C8_ZeroLifetimeGoneAfterLaterVisit ==
    \A k \in DOMAIN created :
        created[k].expires_in_seconds = 0 =>
            /\ query_at[k] <= created[k].at
            /\ pc = "for" /\ all # <<>> /\ Head(all)[1] = k /\ now > created[k].at
                   => is_expired(now, Head(all)[2])
            /\ k \in expired =>
                   /\ get_invoice(invoices, k).err = "NotFound"
                   /\ SendsOf(k) = {}

\* C8: an invoice of lifetime 0 was visited and queried within the second
\* of its creation and removed by the expiry branch in a later second.
C8_Witness ==
    \E k \in expired :
        /\ created[k].expires_in_seconds = 0
        /\ query_at[k] = created[k].at

\* C9: estimate_eip1559_fees_with_retry with the configured maximum N: while
\* it runs, every attempt so far failed retryably and there were at most N;
\* when it returns the exhausted error it made exactly N + 1 attempts; when
\* an attempt yields fees it returns them at once, and the transfer offers
\* the fee computed from them.
C9_RetriesUpToMaximum ==
    /\ fee.result # "none" => fee.max_retries = config.eip1559_estimation_retry_max
    /\ fee.result = "running" =>
           /\ xfer.retries = fee.attempts
           /\ fee.attempts <= fee.max_retries
           /\ Len(fee.sleeps) = fee.attempts
    /\ fee.result = "NoTransactionsInBlock" =>
           /\ fee.attempts = fee.max_retries + 1
           /\ Len(fee.sleeps) = fee.max_retries
    /\ fee.result = "ok" =>
           /\ fee.attempts <= fee.max_retries + 1
           /\ Len(fee.sleeps) = fee.attempts - 1
           /\ pc = "eip1559_estimate_gas" =>
                  /\ xfer.priority_fee = fee.fees[2]
                  /\ xfer.max_fee_per_gas =
                         max_fee_per_gas(fee.fees[1], xfer.base_fee, fee.fees[2])

\* C9: with a maximum of one retry the call gave up after two attempts.
C9_Witness ==
    /\ fee.result = "NoTransactionsInBlock"
    /\ fee.max_retries > 0
    /\ fee.attempts = fee.max_retries + 1

\* C10, as the claim states it: every sleep between two fee estimation
\* attempts lasts the configured eip1559_estimation_retry_delay_seconds.
C10_SleepIsConfiguredDelay ==
    \A i \in DOMAIN fee.sleeps :
        fee.sleeps[i] = config.eip1559_estimation_retry_delay_seconds

\* C11: the sweep value computation never panics or overflows and never goes
\* negative: for every balance, gas limit and gas price (or maximum fee per
\* gas) of the U256 range the transaction carries the value 0 when
\* gas * price exceeds the balance and balance - gas * price otherwise.
C11_ValueNeverPanics ==
    /\ pc # "panicked"
    /\ (pc = "send_transaction" /\ xfer.tx # None) =>
           LET tx == Unwrap(xfer.tx)
           IN tx.value = IF tx.gas * tx.price > xfer.balance THEN 0
                         ELSE xfer.balance - tx.gas * tx.price

\* C12: the value of the sweep transaction is computed from the balance the
\* invoice address holds when the sweep builds it, not from the invoice's
\* amount: it is that balance less gas limit times gas price.
C12_ValueFromActualBalance ==
    [][(pc = "sled_get_gas_price" /\ pc' = "sled_send_transaction") =>
          LET tx == Unwrap(xfer'.tx)
          IN tx.value = saturating_sub(balance[tx.from], tx.gas * tx.price)]_vars

\* C13: when the balance query of an invoice fails, the invoice counts as
\* not paid in this pass: it stays in the map as it was, no transfer is
\* started and nothing is sent for it, and the poller goes on to the sleep
\* after the invoice, from which the loop continues.
C13_FailedQueryLeavesInvoice ==
    (~checked.ok /\ checked.value = None) =>
        LET key == Head(all)[1]
        IN /\ pc = "invoice_sleep"
           /\ key \in DOMAIN invoices
           /\ invoices[key] = Head(all)[2]
           /\ xfer = NoXfer
           /\ sweeps[key] = 0
           /\ SendsOf(key) = {}
           /\ ChannelOf(key) = {}

\* The balance query failed for an invoice whose address holds the amount.
C13_Witness ==
    /\ ~checked.ok /\ checked.value = None
    /\ pc = "invoice_sleep"
    /\ balance[Head(all)[2].to] >= Head(all)[2].amount
    /\ now <= Head(all)[2].expires

\* C14: a signer that cannot be restored from an invoice's key bytes is an
\* error value of the transfer: the poller never panics and its loop never
\* stops, and the invoice is notified without a receipt.
C14_MalformedKeyIsErrorValue ==
    /\ pc # "panicked"
    /\ \A i \in DOMAIN sends :
           ~from_bytes(sends[i].invoice.wallet.inner).ok =>
               /\ ~sends[i].result.ok
               /\ sends[i].invoice.receipt = None

\* C15: the delivery of a notification never blocks the reconciliation
\* loop: the poller is never suspended on the consumer of the notification,
\* however slow the consumer is.
C15_DeliveryNeverBlocks == pc # "sled_callback_pending"

\* C16: new_invoice accepts the native asset and a token address alike, and
\* for every input it returns the id and the invoice (or an error value):
\* it never aborts its caller.
C16_NewInvoiceAlwaysReturns ==
    call.op = "new_invoice" =>
        /\ ~call.panicked
        /\ call.result.ok =>
               /\ call.key \in DOMAIN invoices
               /\ Unwrap(call.result.value) = <<call.key, invoices[call.key]>>

\* C17, as the claim states it: get_all returns the pairs in the order they
\* were inserted in, and the poller visits them in that order: of two
\* invoices the pass has yet to visit, the earlier one was created first.
C17_VisitedInInsertionOrder ==
    \A i, j \in DOMAIN all :
        i < j => created[all[i][1]].returned.to \in created[all[j][1]].issued_before

\* C17, amended: get_all returns the pairs in the ascending order of their
\* keys, and the poller visits them in that order.
C17_VisitedInKeyOrder ==
    \A i, j \in DOMAIN all : i < j => all[i][1] < all[j][1]

\* A pass over two invoices whose second one was created first.
C17_Witness ==
    /\ pc = "for"
    /\ Len(all) = 2
    /\ created[all[2][1]].returned.to \in created[all[1][1]].issued_before

\* C18: get_last returns the pair that was inserted most recently among the
\* pairs still in the tree, and NotFound when the tree is empty.
C18_GetLastIsLatestInserted ==
    (call.op = "get_last" /\ call.result.err # "Sled") =>
        IF DOMAIN invoices = {}
        THEN ~call.result.ok /\ call.result.err = "NotFound"
        ELSE /\ call.result.ok
             /\ LET pair == Unwrap(call.result.value)
                IN /\ pair[1] \in DOMAIN invoices
                   /\ pair[2] = invoices[pair[1]]
                   /\ \A k \in DOMAIN invoices : invoices[k].to <= pair[2].to

\* C19: get and delete of a key the tree does not hold return NotFound and
\* leave the tree as it is; delete of a key it holds returns ok and removes
\* that key and no other entry; get, get_all and get_last never change the
\* tree.  (A call sled itself fails returns sled's error and changes nothing.)
C19_AbsentNotFoundPresentRemoved ==
    [][/\ call'.op \in {"get", "get_all", "get_last"} => invoices' = invoices
       /\ (call'.op \in {"get", "delete"} /\ call'.result.err # "Sled"
           /\ call'.key \notin DOMAIN invoices) =>
              /\ ~call'.result.ok
              /\ call'.result.err = "NotFound"
              /\ invoices' = invoices
       /\ (call'.op = "delete" /\ call'.result.err # "Sled"
           /\ call'.key \in DOMAIN invoices) =>
              /\ call'.result.ok
              /\ DOMAIN invoices' = DOMAIN invoices \ {call'.key}
              /\ \A k \in DOMAIN invoices' : invoices'[k] = invoices[k]
       /\ (call'.op \in {"get", "delete"} /\ call'.result.err = "Sled") =>
              invoices' = invoices]_vars

\* A delete removed one of two entries.
C19_Witness ==
    /\ call.op = "delete"
    /\ call.result.ok
    /\ call.key \notin DOMAIN invoices
    /\ DOMAIN invoices # {}

KeysOf(seq) == {seq[i][1] : i \in DOMAIN seq}

\* C21: new_invoice calls interleaved with the poller only add entries: no
\* created invoice is lost (it is in the map, was expired by the poller, or
\* was sent), the poller deletes an invoice only after it evaluated it, an
\* invoice the poller has not evaluated is in the map as it was created, a
\* call changes neither another entry nor the running pass, and every pass
\* starts from all the entries of the map, so that an invoice created during
\* a pass is in the next one.
C21_CreationOnlyAdds ==
    /\ [](\A k \in DOMAIN created :
            /\ k \in DOMAIN invoices \/ k \in expired \/ SendsOf(k) # {}
            /\ (k \notin DOMAIN invoices /\ k \notin expired) => query_at[k] > 0
            /\ (k \in DOMAIN invoices /\ query_at[k] = 0) =>
                   invoices[k] = created[k].returned)
    /\ [][next_addr' # next_addr =>
             /\ DOMAIN invoices \subseteq DOMAIN invoices'
             /\ \A k \in DOMAIN invoices : invoices'[k] = invoices[k]
             /\ Cardinality(DOMAIN invoices') = Cardinality(DOMAIN invoices) + 1
             /\ UNCHANGED <<pc, all, xfer>>]_vars
    /\ [][(pc = "loop" /\ pc' = "for") => KeysOf(all') = DOMAIN invoices]_vars

\* An invoice was created while a pass was checking another one: it is in
\* the map, and the pass does not know it.
C21_Witness ==
    /\ pc = "get_balance"
    /\ \E k \in DOMAIN invoices :
           /\ k \notin KeysOf(all)
           /\ query_at[k] = 0
           /\ created[k].at >= query_at[Head(all)[1]]

\* C22: reconciliation is one sequential task: at any time at most one
\* invoice is being processed and at most one ledger query or sweep is in
\* flight, also when PaymentGateway::poll_payments was called more than once.
C22_OneInvoiceInFlight ==
    Cardinality({t \in Tasks : pc[t] \in {"get_balance", "transfer"}}) <= 1

\* C23: every buffer the gateway, the poller and the transfer engine put an
\* invoice's key bytes in is overwritten when it is dropped, and once the
\* invoice has left the map no buffer with its key bytes is live but the one
\* sent to the consumer.
C23_KeyBytesWipedAndGone ==
    \A a \in DOMAIN heap :
        /\ \A site \in DOMAIN heap[a] : heap[a][site] # "freed"
        /\ heap[a].map = "wiped" =>
               \A site \in DOMAIN heap[a] : heap[a][site] # "live"


\* C24: in fee-market style the transaction of the sweep offers as its
\* maximum fee per gas the larger of the estimated maximum fee and the base
\* fee plus the estimated priority fee, as its priority fee the estimated
\* priority fee, as its gas limit the gas estimate of the ledger, and as its
\* value the balance less maximum fee times gas, or 0 when that is more
\* than the balance.
C24_Eip1559TransactionFields ==
    (pc \in {"send_transaction", "confirmations"} /\ xfer.tx # None) =>
        LET tx == Unwrap(xfer.tx)
            estimated_max_fee == fee.fees[1]
            estimated_priority_fee == fee.fees[2]
            floor == xfer.base_fee + estimated_priority_fee
        IN /\ fee.result = "ok"
           /\ tx.price = IF estimated_max_fee >= floor THEN estimated_max_fee
                         ELSE floor
           /\ tx.priority = estimated_priority_fee
           /\ tx.gas \in GasEstimates
           /\ tx.value = IF tx.price * tx.gas >= xfer.balance THEN 0
                         ELSE xfer.balance - tx.price * tx.gas

\* C24: a sweep whose maximum fee is the base fee plus the priority fee,
\* above the estimated maximum fee, and which leaves a value to move.
C24_Witness ==
    /\ pc = "send_transaction"
    /\ xfer.tx # None
    /\ Unwrap(xfer.tx).price > fee.fees[1]
    /\ Unwrap(xfer.tx).price = xfer.base_fee + fee.fees[2]
    /\ Unwrap(xfer.tx).value > 0


\* C25: estimate_eip1559_fees succeeds only on a block that holds a
\* transaction with a maximum fee; on a block without one, a block of
\* legacy transactions included, it fails and returns no estimate of
\* (0, 0); and the fees of a successful estimate are the averages over the
\* transactions of the block that carry a maximum fee.
C25_AveragesOverFeeMarketTransactions ==
    (fee.result = "ok" /\ fee.block # None) =>
        LET block == Unwrap(fee.block)
            txs == block.transactions
            base_fee == Unwrap(block.base_fee_per_gas)
            market == SelectSeq(txs, LAMBDA tx : tx # None)
            count == Len(market)
        IN /\ count > 0
           /\ fee.fees # <<0, 0>>
           /\ fee.fees[1] =
                 SumSeq([i \in 1..count |-> Unwrap(market[i])]) \div count
           /\ fee.fees[2] =
                 SumSeq([i \in 1..count |->
                     saturating_sub(Unwrap(market[i]), base_fee)]) \div count


\* C26: with retries configured, a fee-market sweep does not fail on the
\* first block without a base fee: a sweep that failed on such a block has
\* made the configured number of retries before, one attempt more than
\* eip1559_estimation_retry_max, with a sleep between two attempts.
C26_NoBaseFeeIsRetried ==
    (/\ fee.result \notin {"none", "running", "ok"}
     /\ fee.max_retries > 0
     /\ fee.block # None
     /\ Unwrap(fee.block).base_fee_per_gas = None) =>
        /\ fee.attempts = fee.max_retries + 1
        /\ Len(fee.sleeps) = fee.max_retries


\* C27: every failure mode of a sweep reaches the caller as an error kind of
\* its own: two sweeps that failed in different modes (the gas or fee
\* estimate, the chain id, the submission with its signing, the wait for
\* the confirmations) returned different errors, and only a sweep that came
\* back from the confirmations returned a hash.
C27_FailureModesAreDistinct ==
    LET mode(step) ==
            CASE step \in {"legacy_estimate_gas", "estimate_eip1559_fees",
                           "eip1559_estimate_gas"} -> "estimation"
              [] step = "get_chain_id" -> "chain id"
              [] step = "send_transaction" -> "submission"
              [] step = "confirmations" -> "confirmation"
              [] OTHER -> "other"
    IN /\ \A i \in DOMAIN sends :
              sends[i].result.ok => sends[i].step = "confirmations"
       /\ \A i, j \in DOMAIN sends :
              (/\ ~sends[i].result.ok
               /\ ~sends[j].result.ok
               /\ mode(sends[i].step) # "other"
               /\ mode(sends[j].step) # "other"
               /\ mode(sends[i].step) # mode(sends[j].step)) =>
                  sends[i].result.err # sends[j].result.err


\* C28, as the claim states it: the for loop leaves an invoice only at the
\* end of the sleep after it, whatever happened to the invoice; that sleep
\* and the sleep after the pass last poller_delay_seconds, and the pass
\* starts again after its sleep.
C28_SleepAfterEveryInvoice ==
    /\ [][Len(all') < Len(all) => (pc = "invoice_sleep" /\ now >= wake)]_vars
    /\ [][(pc # pc' /\ pc' \in {"invoice_sleep", "pass_sleep"}) =>
              wake' = now + config.poller_delay_seconds]_vars
    /\ [][(pc = "pass_sleep" /\ pc' # pc) => (now >= wake /\ pc' = "loop")]_vars

\* C28, amended: the for loop leaves an invoice at the end of the sleep
\* after it, or at once when the invoice is past its expiry and was removed
\* without a balance query; an invoice whose balance was queried is always
\* followed by the sleep.
C28_SleepAfterEveryQueriedInvoice ==
    /\ [][Len(all') < Len(all) =>
              \/ pc = "invoice_sleep" /\ now >= wake
              \/ /\ pc = "for"
                 /\ now > Head(all)[2].expires
                 /\ query_at' = query_at
                 /\ Head(all)[1] \notin DOMAIN invoices']_vars
    /\ [][(pc # pc' /\ pc' \in {"for", "loop", "pass_sleep"}) =>
              pc \in {"unspawned", "loop", "for", "pass_sleep", "invoice_sleep"}]_vars
    /\ [][(pc # pc' /\ pc' \in {"invoice_sleep", "pass_sleep"}) =>
              wake' = now + config.poller_delay_seconds]_vars
    /\ [][(pc = "pass_sleep" /\ pc' # pc) => (now >= wake /\ pc' = "loop")]_vars

\* C28: an expired invoice was removed, and the loop has gone on to query
\* the invoice after it.
C28_Witness ==
    /\ pc = "get_balance"
    /\ Len(all) = 1
    /\ \E k \in expired : query_at[Head(all)[1]] = now /\ k < Head(all)[1]

\* C29: for a paid invoice the sweep starts, the sweep returns, the invoice
\* is removed from the map and then it is sent.  While a task's sweep of an
\* invoice runs, the invoice is in the map with paid_at_timestamp = 0 and
\* nothing was sent for it; the send happens at the return of the sweep,
\* and with it the invoice is gone from the map.
C29_SweepThenDeleteThenNotify ==
    /\ [](\A t \in Tasks :
              xfer[t].key # 0 =>
                  /\ get_invoice(invoices, xfer[t].key).ok
                  /\ invoices[xfer[t].key].paid_at_timestamp = 0
                  /\ SendsOf(xfer[t].key) = {})
    /\ [][Len(sends') > Len(sends) =>
              LET sent == sends'[Len(sends')]
              IN /\ sends' = Append(sends, sent)
                 /\ \E t \in Tasks : xfer[t].key = sent.key /\ xfer'[t].key = 0
                 /\ ~get_invoice(invoices', sent.key).ok]_vars


\* C30: a sweep attempted again for an address whose first sweep was
\* confirmed moves nothing: it returns an error and leaves every balance
\* and the treasury as they were.  The treasury grows only by the first
\* mined transaction of an address, and by no more than that address gives
\* up, so it never receives from an address more than was deposited there.
C30_SecondSweepMovesNothing ==
    /\ [][Len(sends') > Len(sends) =>
              LET sent == sends'[Len(sends')]
              IN sent.invoice.to \in mined =>
                     /\ ~sent.result.ok
                     /\ balance' = balance
                     /\ treasury' = treasury]_vars
    /\ [][treasury' # treasury =>
              \E a \in Addrs :
                  /\ a \notin mined
                  /\ mined' = mined \cup {a}
                  /\ treasury' > treasury
                  /\ treasury' - treasury <= balance[a] - balance'[a]
                  /\ \A b \in Addrs \ {a} : balance'[b] = balance[b]]_vars
    /\ [][\A a \in mined : a \in mined' /\ balance'[a] >= balance[a]]_vars

\* C30: the first sweep of an invoice was confirmed, the payer has paid to
\* the address once more, and a second sweep of the invoice has returned.
C30_Witness ==
    /\ Len(sends) = 2
    /\ sends[1].key = sends[2].key
    /\ sends[1].result.ok
    /\ ~sends[2].result.ok
    /\ sends[2].invoice.to \in mined
    /\ balance[sends[2].invoice.to] > 0
    /\ treasury > 0


\* C31: every invoice in the map has paid_at_timestamp = 0 and no hash: the
\* poller sets the two fields on its own copy, which goes to the channel,
\* and writes no invoice back.
C31_StoredInvoicesArePending ==
    \A k \in DOMAIN invoices :
        /\ invoices[k].paid_at_timestamp = 0
        /\ invoices[k].hash = None

\* C31: an invoice was sent with its paid_at_timestamp and its hash set
\* while another invoice is still in the map.
C31_Witness ==
    /\ DOMAIN invoices # {}
    /\ \E i \in DOMAIN sends :
           /\ sends[i].invoice.paid_at_timestamp > 0
           /\ sends[i].invoice.hash # None


\* C32: an entry of the tree that does not deserialize affects only
\* itself: when sled itself returns the entries, the pass that starts
\* visits every stored invoice that deserializes, in the order of the keys.
C32_UndecodableEntryAffectsOnlyItself ==
    [][(pc = "sled_loop" /\ pc' # pc /\ call'.result.err # "Get") =>
           /\ pc' = "sled_for"
           /\ all' = get_all_invoices(
                  [k \in {j \in DOMAIN invoices : decodes(invoices[j])} |->
                      invoices[k]])]_vars


C34_PaidCheckFollowsMethod ==
    call.op = "check_and_process" =>
        LET invoice == call.invoice
            token == invoice.token_address # None
            reply == IF token THEN call.token_reply ELSE call.native_reply
        IN /\ call.result.ok = (reply.ok /\ Unwrap(reply.value) >= invoice.amount)
           /\ call.queries = IF token THEN {"balance_of"} ELSE {"get_balance"}

\* C34: an invoice with a token address counts as paid on its token
\* balance while its native balance is below the amount.
C34_Witness ==
    /\ call.op = "check_and_process"
    /\ call.invoice.token_address # None
    /\ call.result.ok
    /\ call.native_reply.ok
    /\ Unwrap(call.native_reply.value) < call.invoice.amount
    /\ Unwrap(call.token_reply.value) = call.invoice.amount


\* C35: the poller task never ends, and an invoice leaves the tree only
\* as expired or after its payment was detected: in every state the task
\* is at a step of its loop, never stopped by a panic with invoices left
\* behind.
C35_LoopNeverEnds ==
    /\ pc # "panicked"
    /\ \A k \in minted \ DOMAIN invoices : k \in expired \/ sweeps[k] > 0


\* C36: in estimate_eip1559_fees_with_retry only the errors
\* NoTransactionsInBlock and NoBaseFeeInBlock count a retry and are followed
\* by a sleep; a provider error at any attempt ends the call at once with
\* that error, after one sleep per earlier attempt; when the retries are
\* used up the call returns NoTransactionsInBlock, also when its last
\* attempt failed with NoBaseFeeInBlock.
C36_OnlyRetryableErrorsRetry ==
    /\ [](/\ fee.err = "EthersError" =>
                 /\ fee.result = "EthersError"
                 /\ pc # "retry_sleep"
                 /\ Len(fee.sleeps) = fee.attempts - 1
          /\ fee.result = "running" => xfer.retries = Len(fee.sleeps)
          /\ (fee.attempts > 0 /\ fee.result \notin {"ok", "EthersError", "running"}) =>
                 /\ fee.result = "NoTransactionsInBlock"
                 /\ fee.err \in {"NoTransactionsInBlock", "NoBaseFeeInBlock"}
                 /\ Len(fee.sleeps) = fee.max_retries)
    /\ [][Len(fee'.sleeps) = Len(fee.sleeps) + 1 =>
              /\ fee'.err \in {"NoTransactionsInBlock", "NoBaseFeeInBlock"}
              /\ xfer'.retries = xfer.retries + 1
              /\ pc' = "retry_sleep"]_vars

\* C36: a provider error at the second attempt ended the call after the one
\* sleep that followed the first.
C36_Witness ==
    /\ fee.result = "EthersError"
    /\ fee.attempts = 2
    /\ Len(fee.sleeps) = 1


\* C37: the invoice of a notification has the to, wallet, amount,
\* token_address, message and expires of the record new_invoice returned
\* for the id the notification carries, on the way to the channel and in
\* the channel; the loop's copy of a visited invoice is that record until
\* the notification is built.
C37_NotifiedInvoiceIsCreatedRecord ==
    LET same(invoice, key) ==
            /\ key \in DOMAIN created
            /\ LET c == created[key].returned
               IN /\ invoice.to = c.to
                  /\ invoice.wallet = c.wallet
                  /\ invoice.amount = c.amount
                  /\ invoice.token_address = c.token_address
                  /\ invoice.message = c.message
                  /\ invoice.expires = c.expires
    IN /\ \A i \in DOMAIN sends : same(sends[i].invoice, sends[i].key)
       /\ \A j \in DOMAIN channel : same(channel[j][2], channel[j][1])
       /\ \A n \in DOMAIN all : all[n][2] = created[all[n][1]].returned

\* C37: a notification with a receipt and a time of payment is in the
\* channel: the invoice differs from the created record, in these two
\* fields.
C37_Witness ==
    \E j \in DOMAIN channel :
        LET key == channel[j][1]
            invoice == channel[j][2]
        IN /\ invoice.hash # None
           /\ invoice.paid_at_timestamp > 0
           /\ invoice # created[key].returned
           /\ invoice.wallet.inner # <<>>


\* C38: the three queries transfer_gas_to_treasury starts with, in the
\* fee-market style as well: while they run no transaction is built and no
\* fee estimated; each either returns its answer and the transfer moves to
\* its next step, or fails, and then the transfer returns EthersError with
\* nothing submitted to the ledger, the invoice leaves the map and is sent
\* through the reflector without a hash, reaching the channel while its
\* receiver lives.
C38_FailedFirstQueriesAbortSweep ==
    /\ [](/\ pc \in FirstQueries => xfer.tx = None /\ fee = NoFee
          /\ \A i \in DOMAIN sends :
                 sends[i].step \in FirstQueries =>
                     /\ sends[i].result = TransferErr("EthersError")
                     /\ sends[i].invoice.hash = None
                     /\ sends[i].key \notin DOMAIN invoices
                     /\ sends[i].delivered =>
                            \E j \in DOMAIN channel :
                                channel[j] = <<sends[i].key, sends[i].invoice>>)
    /\ [][(pc \in FirstQueries /\ pc' # pc) =>
              \/ /\ sends' = sends
                 /\ pc = "get_chain_id" => pc' = "get_gas_price"
                 /\ pc = "get_gas_price" =>
                        pc' = "get_native_balance" /\ xfer'.gas_price \in GasPrices
                 /\ pc = "get_native_balance" => pc' \in {"legacy_estimate_gas", "get_block"}
              \/ /\ Len(sends') = Len(sends) + 1
                 /\ sends'[Len(sends')].step = pc
                 /\ ~sends'[Len(sends')].result.ok
                 /\ pc' = "invoice_sleep"
                 /\ UNCHANGED <<pending, mined, balance, treasury>>]_vars

\* C38: in the fee-market style the gas-price query failed, and the invoice
\* was removed and notified without a hash.
C38_Witness ==
    /\ config.transaction_type = "Eip1559"
    /\ \E i \in DOMAIN sends :
        /\ sends[i].step = "get_gas_price"
        /\ sends[i].result.err = "EthersError"
        /\ sends[i].invoice.hash = None
        /\ sends[i].key \notin DOMAIN invoices
        /\ sends[i].delivered


\* C39: the visit of an invoice tests the expiry first, with now > expires:
\* past it the invoice is removed and the loop goes to the next one with no
\* balance query, sweep, notification or transaction, whatever its address
\* holds; otherwise, at now = expires as well, the balance is queried, and
\* a reply of at least the amount starts the sweep.
C39_ExpiryBeforePaymentStrict ==
    /\ [][(pc = "for" /\ all # <<>> /\ (all' # all \/ pc' # pc)) =>
              LET key == Head(all)[1]
                  invoice == Head(all)[2]
              IN IF now > invoice.expires
                 THEN /\ key \notin DOMAIN invoices'
                      /\ all' = Tail(all)
                      /\ pc' = "for"
                      /\ UNCHANGED <<query_at, sweeps, sends, channel, pending,
                                     balance, checked>>
                 ELSE /\ pc' = "get_balance"
                      /\ query_at'[key] = now
                      /\ UNCHANGED <<invoices, all, sweeps, sends>>]_vars
    /\ [][(pc = "get_balance" /\ pc' # pc) =>
              LET key == Head(all)[1]
                  invoice == Head(all)[2]
              IN IF checked'.ok /\ Unwrap(checked'.value) >= invoice.amount
                 THEN /\ sweeps'[key] = sweeps[key] + 1
                      /\ pc' = "get_chain_id"
                 ELSE /\ sweeps' = sweeps
                      /\ pc' = "invoice_sleep"]_vars

\* C39: one invoice whose address holds its amount was removed as expired
\* without a sweep, and another, visited in the second it expires at, was
\* found paid and its sweep started.
C39_Witness ==
    \E k \in expired, j \in DOMAIN created :
        /\ balance[created[k].returned.to] >= created[k].returned.amount
        /\ sweeps[k] = 0
        /\ query_at[j] = created[j].returned.expires
        /\ sweeps[j] = 1

====
